---- MODULE Spec2Model ----
(***************************************************************************)
(* Cascading delete of an activity record (deleteActivity) and the local   *)
(* backlink scan it relies on (findLinkedURIs), over a repository of       *)
(* records addressed by (owner, collection, record key).                   *)
(***************************************************************************)
EXTENDS Integers, Sequences, FiniteSets, TLC

\* ------------------------------------------------------------------ bounds
\* Number of deleteActivity invocations in one behaviour.
MaxRuns == 2
\* Number of repository requests that fail for infrastructure reasons.
MaxFail == 2
\* Length of the listing scanned by findLinkedURIs.
MaxListing == 3
\* Records per listRecords page (the code asks for 100 per page).
PageLimit == 2
\* Linking records in one page of the remote index.
MaxPageLen == 1
\* Records the remote index matches for one collection and path.
MaxMatched == 2
\* Length, in symbols, of the strings given to resolveRecordURI and extractRkey.
MaxStr == 6
\* Length, in bytes, of the input given to Confirm and ReadRequired.
MaxInput == 4
\* Revisions another writer stores while `measurement edit` runs.
MaxOtherWrites == 1

\* ------------------------------------------------------------ identifiers
CollectionActivity == "org.hypercerts.claim.activity"
CollectionMeasurement == "org.hypercerts.claim.measurement"
CollectionAttachment == "org.hypercerts.claim.attachment"
CollectionCollection == "org.hypercerts.claim.collection"
CollectionEvaluation == "org.hypercerts.claim.evaluation"
CollectionFundingReceipt == "org.hypercerts.funding.receipt"

\* The authenticated account (client.AccountDID) and a foreign account.
did == "did:plc:me"
otherDid == "did:plc:other"

\* A record URI at://owner/coll/rkey; wf = FALSE stands for a string that
\* syntax.ParseATURI rejects.
MkURI(owner, coll, rkey, wf) ==
    [owner |-> owner, coll |-> coll, rkey |-> rkey, wf |-> wf]

\* resolveRecordURI applied to a short id: at://<did>/<collection>/<id>.
resolveRecordURI(d, collection, id) == MkURI(d, collection, id, TRUE)

\* Variant: every string is accepted as a record URI.
ParseNeverFails(u) == FALSE

\* syntax.ParseATURI: the error result of parsing.
ParseFails(u) == ~u.wf

\* buildStrongRef: a (uri, cid) pair.
buildStrongRef(u, cid) == [uri |-> u, cid |-> cid]

\* A field that holds no strong reference.
NoRef == [uri |-> MkURI("", "", "", FALSE), cid |-> ""]

T1 == resolveRecordURI(did, CollectionActivity, "a1")
T2 == resolveRecordURI(did, CollectionActivity, "a2")
T3 == resolveRecordURI(otherDid, CollectionActivity, "a1")
TBad == MkURI(did, CollectionActivity, "a 1", FALSE)

\* The URIs an operator may pass to `activity delete`.
RootURIs == {T1, T3, TBad}

\* ---------------------------------------------------------------- records
\* A stored record of the caller's repository: its collection and key, whether
\* the URI the listing returns for it parses, and its reference fields.
Rec(coll, rkey, wf, subject, subjects, items) ==
    [coll |-> coll, rkey |-> rkey, wf |-> wf,
     subject |-> subject, subjects |-> subjects, items |-> items]

\* RecordEntry.URI of a listed record.
EntryURI(e) == MkURI(did, e.coll, e.rkey, e.wf)

Activity(k) == Rec(CollectionActivity, k, TRUE, NoRef, <<>>, <<>>)
Measurement(k, wf, t) ==
    Rec(CollectionMeasurement, k, wf, buildStrongRef(t, "cid0"), <<>>, <<>>)
MeasurementNoSubject(k) == Rec(CollectionMeasurement, k, TRUE, NoRef, <<>>, <<>>)
Attachment(k, wf, ts) ==
    Rec(CollectionAttachment, k, wf, NoRef,
        [i \in 1..Len(ts) |-> buildStrongRef(ts[i], "cid0")], <<>>)
Evaluation(k, t) ==
    Rec(CollectionEvaluation, k, TRUE, buildStrongRef(t, "cid0"), <<>>, <<>>)

\* Records that exist in every initial repository: another activity, a
\* collection record whose items reference a1, and a funding receipt (its
\* "for" field is a plain string, not a strong reference).
StaticRecords ==
    { Activity("a2"),
      Rec(CollectionCollection, "c1", TRUE, NoRef, <<>>,
          <<buildStrongRef(T1, "cid0")>>),
      Rec(CollectionFundingReceipt, "f1", TRUE, NoRef, <<>>, <<>>) }

\* The alternatives for each optional record of the initial repository.
A1Options == { {}, {Activity("a1")} }
M1Options == { {}, {Measurement("m1", TRUE, T1)}, {Measurement("m1", FALSE, T1)} }
M2Options == { {}, {Measurement("m2", TRUE, T1)}, {Measurement("m2", TRUE, T2)},
               {MeasurementNoSubject("m2")} }
AtOptions == { {}, {Attachment("t1", TRUE, <<T2, T1>>)},
               {Attachment("t1", TRUE, <<T2>>)} }
EvOptions == { {}, {Evaluation("e1", T1)}, {Evaluation("e1", T3)} }

\* The order in which com.atproto.repo.listRecords yields record keys.
RkeyOrder == <<"a1", "a2", "c1", "e1", "f1", "m1", "m2", "t1">>

\* ------------------------------------------------------- repository client
Present(rp, coll, rkey) == \E r \in rp : r.coll = coll /\ r.rkey = rkey

Lookup(rp, coll, rkey) == CHOOSE r \in rp : r.coll = coll /\ r.rkey = rkey

\* Variant: the existence check never reports a missing record.
GetRecordNeverFails(rp, coll, rkey, mayFail) == {TRUE}

\* atproto.GetRecord: the outcomes the request can have (TRUE = no error).
GetRecordOutcomes(rp, coll, rkey, mayFail) ==
    IF Present(rp, coll, rkey)
    THEN IF mayFail THEN {TRUE, FALSE} ELSE {TRUE}
    ELSE {FALSE}

\* atproto.DeleteRecord that succeeds: the record with that key is gone.
DeleteRecord(rp, coll, rkey) ==
    { r \in rp : ~(r.coll = coll /\ r.rkey = rkey) }

\* atproto.ListAllRecords that succeeds: the entries of one collection.
ListAllRecords(rp, collection) ==
    LET keys == SelectSeq(RkeyOrder, LAMBDA k : Present(rp, collection, k))
    IN  [i \in 1..Len(keys) |-> Lookup(rp, collection, keys[i])]

\* ----------------------------------------------------------- findLinkedURIs
\* Variant: an entry matches as soon as it holds any reference at all.
MatchesAnyTarget(e, linkField, targetURI) ==
    IF linkField = "subject"
    THEN e.subject # NoRef
    ELSE Len(e.subjects) > 0

\* Variant: both reference fields are inspected whatever the link field.
MatchesEitherField(e, linkField, targetURI) ==
    \/ e.subject # NoRef /\ e.subject.uri = targetURI
    \/ \E i \in 1..Len(e.subjects) : e.subjects[i].uri = targetURI

\* Variant: an entry matches the "subjects" query only when every element of
\* the array is the target.
MatchesAllSubjects(e, linkField, targetURI) ==
    IF linkField = "subject"
    THEN e.subject # NoRef /\ e.subject.uri = targetURI
    ELSE /\ Len(e.subjects) > 0
         /\ \A i \in 1..Len(e.subjects) : e.subjects[i].uri = targetURI

\* The match rule of one listed entry against the target URI.
Matches(e, linkField, targetURI) ==
    IF linkField = "subject"
    THEN e.subject # NoRef /\ e.subject.uri = targetURI
    ELSE IF linkField = "subjects"
    THEN \E i \in 1..Len(e.subjects) : e.subjects[i].uri = targetURI
    ELSE FALSE

\* Variant: the inner loop over the subjects array does not stop at the first
\* match, so an entry is appended once per matching element.
RECURSIVE MatchingURIsNoBreak(_, _, _)
MatchingURIsNoBreak(entries, linkField, targetURI) ==
    IF entries = <<>>
    THEN <<>>
    ELSE LET e == Head(entries)
             n == IF linkField = "subject"
                  THEN IF e.subject # NoRef /\ e.subject.uri = targetURI THEN 1 ELSE 0
                  ELSE Len(SelectSeq(e.subjects, LAMBDA r : r.uri = targetURI))
         IN  [i \in 1..n |-> EntryURI(e)]
               \o MatchingURIsNoBreak(Tail(entries), linkField, targetURI)

\* The loop of findLinkedURIs over the listed entries: the URIs of the
\* matching entries, in listing order.
MatchingURIs(entries, linkField, targetURI) ==
    LET hits == SelectSeq(entries, LAMBDA e : Matches(e, linkField, targetURI))
    IN  [i \in 1..Len(hits) |-> EntryURI(hits[i])]

\* findLinkedURIs: nil when the listing fails, else the URIs of the matching
\* entries in listing order.
findLinkedURIs(rp, listOK, collection, linkField, targetURI) ==
    IF ~listOK
    THEN <<>>
    ELSE MatchingURIs(ListAllRecords(rp, collection), linkField, targetURI)

\* ------------------------------------------------------------------ state
VARIABLES
    repo,        \* the records stored in the caller's repository
    pc,          \* position of the current deleteActivity invocation
    uri,         \* its uri argument
    force,       \* its force argument
    linked,      \* measurementURIs, attachmentURIs, evaluationURIs
    cur,         \* the next item of the deletion phase: [phase, i]
    out,         \* what the invocation returned and printed
    warnings,    \* the "Warning: failed to delete ..." lines printed
    log,         \* history: the delete requests issued by this invocation
    skipped,     \* history: dependents skipped because their URI did not parse
    scanFailed,  \* history: the kinds whose listing failed in this invocation
    answer,      \* history: the operator's reply to "Proceed?"
    repo0,       \* history: the repository when this invocation began
    gone,        \* history: records removed by earlier invocations
    interrupted, \* history: the URIs whose invocation was interrupted
    runs,        \* number of invocations begun
    fails        \* number of failed requests injected

vars == <<repo, pc, uri, force, linked, cur, out, warnings, log, skipped,
          scanFailed, answer, repo0, gone, interrupted, runs, fails>>

\* --- findLinkedURIs over a paginated listing (ListAllRecords page by page)
VARIABLES
    sListing,    \* the raw records the server lists for the collection, in order
    sField,      \* the linkField argument
    sTarget,     \* the targetURI argument
    sPc,         \* "off", "list" (the listing loop runs) or "done"
    sCursor,     \* number of raw records already returned to the loop
    sEntries,    \* the entries accumulated by ListAllRecords
    sRes         \* the result: uris returned, failed = a page request failed

scanVars == <<sListing, sField, sTarget, sPc, sCursor, sEntries, sRes>>

ScanOff ==
    /\ sListing = <<>>
    /\ sField = "subject"
    /\ sTarget = T1
    /\ sPc = "off"
    /\ sCursor = 0
    /\ sEntries = <<>>
    /\ sRes = [uris |-> <<>>, failed |-> FALSE]

\* --- GetAllBacklinkRecords against the remote index
VARIABLES
    pgSvc,       \* the remote index: the response it gives for each cursor
    pgPc,        \* "off", "loop" or "done"
    pgCursor,    \* the local variable cursor
    pgAll,       \* the local variable all
    pgLog,       \* the requests issued: the cursor passed and whether it succeeded
    pgRes        \* the result: records and err

pageVars == <<pgSvc, pgPc, pgCursor, pgAll, pgLog, pgRes>>

\* The cursor of a response that carries none.
NilCursor == "nil"

NoResponse == [records |-> <<>>, cursor |-> NilCursor]

PagesOff ==
    /\ pgSvc = [c \in {""} |-> NoResponse]
    /\ pgPc = "off"
    /\ pgCursor = ""
    /\ pgAll = <<>>
    /\ pgLog = <<>>
    /\ pgRes = [records |-> <<>>, err |-> FALSE]

\* --- runActivityDelete without an id: the multi-select path
VARIABLES
    bkPc,        \* "off", "loop", "done", "aborted" or "failed"
    bkSelected,  \* the URIs returned by menu.MultiSelect
    bkIdx,       \* position of the loop over selected
    bkCalls,     \* the deleteActivity invocations made: uri and force
    bkErrs,      \* whether each returned invocation returned an error
    bkWarnings,  \* the URIs for which "Warning:" was printed
    bkAnswer,    \* the answer to the aggregate confirmation, "none" if not asked
    bkRepo0      \* the repository when the command started

bulkVars == <<bkPc, bkSelected, bkIdx, bkCalls, bkErrs, bkWarnings, bkAnswer, bkRepo0>>

BulkOff ==
    /\ bkPc = "off"
    /\ bkSelected = <<>>
    /\ bkIdx = 1
    /\ bkCalls = <<>>
    /\ bkErrs = <<>>
    /\ bkWarnings = <<>>
    /\ bkAnswer = "none"
    /\ bkRepo0 = {}

\* --- runActivityGet
VARIABLES
    gPc,         \* "off", "idle", "summary", a category, or "done"
    gIndex,      \* the remote index: matched records per collection and path
    gIndexState, \* "down": every index request fails; "flaky": any may fail
    gStore,      \* the stored records with their content hashes
    gFlags,      \* the flags of the command line after --all is applied
    gRootOK,     \* the root record was fetched
    gQueries,    \* per category, the index queries made: path, ok, matched
    gFetches,    \* per category, whether the fetch of each matched record succeeded
    gOut,        \* what the command printed and returned
    gMethods     \* the methods of all requests issued so far

getVars == <<gPc, gIndex, gIndexState, gStore, gFlags, gRootOK, gQueries, gFetches,
             gOut, gMethods>>

GetOff ==
    /\ gPc = "off"
    /\ gIndex = <<>>
    /\ gIndexState = "down"
    /\ gStore = {}
    /\ gFlags = <<>>
    /\ gRootOK = FALSE
    /\ gQueries = <<>>
    /\ gFetches = <<>>
    /\ gOut = <<>>
    /\ gMethods = {}

\* --- resolveRecordURI and extractRkey on strings
VARIABLES
    strPc,       \* "off", "start", "resolved", "again" or "done"
    strIn,       \* the idOrURI / uri argument
    strOwner,    \* the did argument
    strColl,     \* the collection argument
    strURI,      \* resolveRecordURI(strOwner, strColl, strIn)
    strURI2,     \* the result of resolving strURI again
    strKey,      \* extractRkey(strURI)
    strRaw       \* extractRkey(strIn): the value and whether the parse failed

strVars == <<strPc, strIn, strOwner, strColl, strURI, strURI2, strKey, strRaw>>

StrOff ==
    /\ strPc = "off"
    /\ strIn = <<>>
    /\ strOwner = <<>>
    /\ strColl = <<>>
    /\ strURI = <<>>
    /\ strURI2 = <<>>
    /\ strKey = <<>>
    /\ strRaw = [value |-> <<>>, parsed |-> FALSE]

\* --- menu.Confirm (plain text) and prompt.ReadRequired on an input stream
VARIABLES
    pPc,         \* "off", "confirm", "read" or "done"
    pIn,         \* the bytes the reader will deliver
    pConfirm,    \* the result of Confirm
    pPos,        \* bytes consumed by the bufio.Reader of ReadRequired
    pWarn,       \* "is required" warnings written by ReadRequired
    pOut         \* the result of ReadRequired: value and err

promptVars == <<pPc, pIn, pConfirm, pPos, pWarn, pOut>>

PromptOff ==
    /\ pPc = "off"
    /\ pIn = <<>>
    /\ pConfirm = FALSE
    /\ pPos = 0
    /\ pWarn = 0
    /\ pOut = [value |-> <<>>, err |-> FALSE]

\* --- `measurement ls` in its two output formats on one repository
VARIABLES
    lsPc,        \* "off", "start", "table" (the table run returned) or "done"
    lsRepo,      \* the measurement records of the caller's repository
    lsFilter,    \* the value of --activity
    lsTable,     \* the run without --json: the rows printed and err
    lsJSON       \* the run with --json: the array elements printed and err

lsVars == <<lsPc, lsRepo, lsFilter, lsTable, lsJSON>>

NoListing == [rows |-> <<>>, err |-> FALSE]

LsOff ==
    /\ lsPc = "off"
    /\ lsRepo = {}
    /\ lsFilter = [isURI |-> FALSE, rkey |-> "", uri |-> NoRef.uri]
    /\ lsTable = NoListing
    /\ lsJSON = NoListing

\* --- `measurement edit` with a second writer on the same record
VARIABLES
    edPc,        \* "off", "start", "got" (GetRecord returned) or "done"
    edStore,     \* the stored revision of the record: value and cid
    edFlags,     \* the values of --metric and --start-date ("" = not given)
    edExisting,  \* the locals existing and cid after GetRecord
    edPuts,      \* the PutRecord requests issued: record, swap and outcome
    edOther,     \* the revisions the other writer stored, in order
    edResult     \* "none", "notfound", "nochanges", "updated" or "failed"

editVars == <<edPc, edStore, edFlags, edExisting, edPuts, edOther, edResult>>

NoDate == [day |-> 0, long |-> FALSE]

NoValue == [metric |-> "", startDate |-> NoDate]

\* The content hash of a record value: equal exactly for equal values.
CidOf(value) == [hash |-> value]

NoRevision == [value |-> NoValue, cid |-> CidOf(NoValue)]

EditOff ==
    /\ edPc = "off"
    /\ edStore = NoRevision
    /\ edFlags = NoValue
    /\ edExisting = NoRevision
    /\ edPuts = <<>>
    /\ edOther = <<>>
    /\ edResult = "none"

\* The variables of the commands modelled on their own.
cmdVars == <<lsVars, editVars>>

CmdOff == LsOff /\ EditOff

\* The variables of the helper functions modelled on their own.
moreVars == <<strVars, promptVars, cmdVars>>

MoreOff == StrOff /\ PromptOff /\ CmdOff

\* The variables of the operations other than deleteActivity.
others == <<scanVars, pageVars, bulkVars, getVars, moreVars>>

OthersOff == ScanOff /\ PagesOff /\ BulkOff /\ GetOff /\ MoreOff

Kinds == {"attachment", "measurement", "evaluation"}

\* The collection and link field scanned for each kind of dependent.
CollectionOf(kind) ==
    CASE kind = "measurement" -> CollectionMeasurement
      [] kind = "attachment" -> CollectionAttachment
      [] kind = "evaluation" -> CollectionEvaluation

LinkFieldOf(kind) ==
    CASE kind = "measurement" -> "subject"
      [] kind = "attachment" -> "subjects"
      [] kind = "evaluation" -> "subject"

URIsOf(lk, kind) ==
    CASE kind = "measurement" -> lk.measurementURIs
      [] kind = "attachment" -> lk.attachmentURIs
      [] kind = "evaluation" -> lk.evaluationURIs

NoLinked == [measurementURIs |-> <<>>, attachmentURIs |-> <<>>,
             evaluationURIs |-> <<>>]

\* totalLinked
totalLinked(lk) ==
    Len(lk.measurementURIs) + Len(lk.attachmentURIs) + Len(lk.evaluationURIs)

\* Variants: measurements before attachments; the root first; no evaluation
\* loop.
DeletionOrderMeasurementFirst == <<"measurement", "attachment", "evaluation", "root">>

DeletionOrderRootFirst == <<"root", "attachment", "measurement", "evaluation">>

DeletionOrderNoEvaluation == <<"attachment", "measurement", "root">>

\* The order of the deletion phase: the three loops, then the root.
DeletionOrder == <<"attachment", "measurement", "evaluation", "root">>

\* The next item to process at or after item i of phase p; a phase beyond the
\* last one means that the deletion phase is over.
RECURSIVE Settle(_, _, _)
Settle(p, i, lk) ==
    IF p > Len(DeletionOrder)
    THEN [phase |-> p, i |-> 1]
    ELSE IF DeletionOrder[p] = "root"
    THEN IF i = 1 THEN [phase |-> p, i |-> 1] ELSE Settle(p + 1, 1, lk)
    ELSE IF i <= Len(URIsOf(lk, DeletionOrder[p]))
    THEN [phase |-> p, i |-> i]
    ELSE Settle(p + 1, 1, lk)

\* Variant: a failed delete is requested again.
AfterDeleteRetries(p, i, lk, ok) ==
    IF ok THEN Settle(p, i + 1, lk) ELSE Settle(p, i, lk)

\* Variant: a failed delete leaves the loop of its kind.
AfterDeleteBreaksOnError(p, i, lk, ok) ==
    IF ok THEN Settle(p, i + 1, lk) ELSE Settle(p + 1, 1, lk)

\* The item after a dependent's delete request: the next one of the loop,
\* whether or not the request failed.
AfterDelete(p, i, lk, ok) == Settle(p, i + 1, lk)

NoCounts == [measurement |-> 0, attachment |-> 0, evaluation |-> 0]

\* The counts printed per kind, in the prompt and in the "Deleted %d linked"
\* lines alike: the length of the discovered list.
PrintedCounts(lk) ==
    [measurement |-> Len(lk.measurementURIs),
     attachment |-> Len(lk.attachmentURIs),
     evaluation |-> Len(lk.evaluationURIs)]

\* out: result names the exit taken, err is whether an error was returned,
\* prompt and deleted are the per-kind counts printed before the confirmation
\* and after the deletion.
Out(result, err, prompt, deleted) ==
    [result |-> result, err |-> err, prompt |-> prompt, deleted |-> deleted]

NoOut == Out("none", FALSE, NoCounts, NoCounts)

\* Variant: the reply is ignored.
ConfirmIgnored(ans) == TRUE

\* Variant: the error of the root delete is swallowed.
RootDeleteErrorSwallowed(ok) == FALSE

\* `if !menu.Confirm(...) { return nil }`: whether the run goes on.
ConfirmProceeds(ans) == ans

\* `if err := DeleteRecord(root); err != nil { return ... }`
RootDeleteError(ok) == ~ok

\* `if err := DeleteRecord(dependent); err != nil { Fprintf("Warning: ...") }`:
\* the warning lines after one delete request; the loop goes on either way.
DeleteWarning(ws, kind, u, ok) ==
    IF ok THEN ws ELSE Append(ws, [kind |-> kind, rkey |-> u.rkey])

\* A request may fail for infrastructure reasons while the budget lasts.
RequestOutcomes == IF fails < MaxFail THEN {TRUE, FALSE} ELSE {TRUE}

Failed(b) == IF b THEN 0 ELSE 1

\* The repository of the other identity; it is never written by the caller.
OtherRepo == {Activity("a1")}

\* Variant: requests are addressed to the owner named in the URI.
RequestOwnerFromURI(u) == u.owner

\* The repo argument of GetRecord and DeleteRecord in deleteActivity: the
\* caller's did, whatever authority the URI names.
RequestOwner(u) == did

\* The repository a request addressed to owner acts on.
RepoOf(rp, owner) == IF owner = did THEN rp ELSE OtherRepo

Init ==
    /\ \E a \in A1Options, m1 \in M1Options, m2 \in M2Options,
          t \in AtOptions, e \in EvOptions :
          repo = StaticRecords \cup a \cup m1 \cup m2 \cup t \cup e
    /\ pc = "idle"
    /\ uri = T1
    /\ force = FALSE
    /\ linked = NoLinked
    /\ cur = [phase |-> 1, i |-> 1]
    /\ out = NoOut
    /\ warnings = <<>>
    /\ log = <<>>
    /\ skipped = <<>>
    /\ scanFailed = {}
    /\ answer = "none"
    /\ repo0 = repo
    /\ gone = {}
    /\ interrupted = {}
    /\ runs = 0
    /\ fails = 0
    /\ OthersOff

\* deleteActivity up to the existence check: parse the URI, get the root with
\* the caller's did and the URI's collection and record key.
deleteActivityEntry(u, f) ==
    /\ uri' = u
    /\ force' = f
    /\ IF ParseFails(u)
       THEN /\ pc' = "done"
            /\ out' = Out("invalid", TRUE, NoCounts, NoCounts)
            /\ fails' = fails
       ELSE \E ok \in GetRecordOutcomes(RepoOf(repo, RequestOwner(u)), u.coll, u.rkey,
                                        fails < MaxFail) :
              /\ pc' = IF ok THEN "find" ELSE "done"
              /\ out' = IF ok THEN NoOut
                        ELSE Out("notfound", TRUE, NoCounts, NoCounts)
              /\ fails' = IF ~ok /\ Present(RepoOf(repo, RequestOwner(u)), u.coll, u.rkey)
                          THEN fails + 1 ELSE fails
    /\ runs' = runs + 1
    /\ repo0' = repo
    /\ gone' = gone \cup (repo0 \ repo)
    /\ linked' = NoLinked
    /\ cur' = [phase |-> 1, i |-> 1]
    /\ warnings' = <<>>
    /\ log' = <<>>
    /\ skipped' = <<>>
    /\ scanFailed' = {}
    /\ answer' = "none"
    /\ UNCHANGED <<repo, interrupted>>

\* runActivityDelete with an id: deleteActivity on the resolved URI with the
\* --force flag of the command line.
Begin ==
    /\ pc \in {"idle", "done", "crashed"}
    /\ bkPc # "loop" \/ pc = "crashed"
    /\ runs < MaxRuns
    /\ \E u \in RootURIs, f \in BOOLEAN : deleteActivityEntry(u, f)
    /\ bkPc' = "off"
    /\ bkSelected' = <<>>
    /\ bkIdx' = 1
    /\ bkCalls' = <<>>
    /\ bkErrs' = <<>>
    /\ bkWarnings' = <<>>
    /\ bkAnswer' = "none"
    /\ bkRepo0' = {}
    /\ UNCHANGED <<scanVars, pageVars, getVars, moreVars>>

\* "Find linked records": the three scans and totalLinked; when no
\* confirmation is needed the run enters the deletion phase.
FindLinked ==
    /\ pc = "find"
    /\ \E okM, okA, okE \in BOOLEAN :
          /\ fails + Failed(okM) + Failed(okA) + Failed(okE) <= MaxFail
          /\ fails' = fails + Failed(okM) + Failed(okA) + Failed(okE)
          /\ scanFailed' = {k \in Kinds :
                              \/ k = "measurement" /\ ~okM
                              \/ k = "attachment" /\ ~okA
                              \/ k = "evaluation" /\ ~okE}
          /\ linked' =
               [measurementURIs |->
                    findLinkedURIs(repo, okM, CollectionOf("measurement"),
                                   LinkFieldOf("measurement"), uri),
                attachmentURIs |->
                    findLinkedURIs(repo, okA, CollectionOf("attachment"),
                                   LinkFieldOf("attachment"), uri),
                evaluationURIs |->
                    findLinkedURIs(repo, okE, CollectionOf("evaluation"),
                                   LinkFieldOf("evaluation"), uri)]
    /\ IF ~force /\ totalLinked(linked') > 0
       THEN /\ pc' = "confirm"
            /\ out' = Out("none", FALSE, PrintedCounts(linked'), NoCounts)
            /\ cur' = cur
       ELSE /\ pc' = "delete"
            /\ out' = out
            /\ cur' = Settle(1, 1, linked')
    /\ UNCHANGED <<repo, uri, force, warnings, log, skipped, answer, repo0,
                   gone, interrupted, runs>>
    /\ UNCHANGED others

\* The "Proceed?" prompt of a non-forced run with linked records.
Confirm ==
    /\ pc = "confirm"
    /\ \E ans \in BOOLEAN :
          /\ answer' = IF ans THEN "yes" ELSE "no"
          /\ IF ConfirmProceeds(ans)
             THEN /\ pc' = "delete"
                  /\ cur' = Settle(1, 1, linked)
                  /\ out' = out
             ELSE /\ pc' = "done"
                  /\ cur' = cur
                  /\ out' = Out("aborted", FALSE, out.prompt, NoCounts)
    /\ UNCHANGED <<repo, uri, force, linked, warnings, log, skipped,
                   scanFailed, repo0, gone, interrupted, runs, fails>>
    /\ UNCHANGED others

\* The exit after the last item of the deletion phase: the "Deleted ..." lines.
Finish(c, lk, o) ==
    IF c.phase > Len(DeletionOrder)
    THEN <<"done", Out("deleted", FALSE, o.prompt, PrintedCounts(lk))>>
    ELSE <<"delete", o>>

\* One iteration of a deletion loop: skip a URI that does not parse, else
\* issue the delete request with the caller's did and warn when it fails.
DeleteDependent(kind) ==
    /\ pc = "delete"
    /\ cur.phase <= Len(DeletionOrder)
    /\ DeletionOrder[cur.phase] = kind
    /\ LET u == URIsOf(linked, kind)[cur.i]
       IN  /\ IF ParseFails(u)
              THEN /\ skipped' = Append(skipped, u)
                   /\ cur' = Settle(cur.phase, cur.i + 1, linked)
                   /\ UNCHANGED <<repo, log, warnings, fails>>
              ELSE \E ok \in RequestOutcomes :
                     /\ cur' = AfterDelete(cur.phase, cur.i, linked, ok)
                     /\ log' = Append(log, [kind |-> kind, owner |-> RequestOwner(u),
                                            coll |-> u.coll, rkey |-> u.rkey,
                                            ok |-> ok])
                     /\ repo' = IF ok /\ RequestOwner(u) = did
                                THEN DeleteRecord(repo, u.coll, u.rkey)
                                ELSE repo
                     /\ warnings' = DeleteWarning(warnings, kind, u, ok)
                     /\ fails' = fails + Failed(ok)
                     /\ skipped' = skipped
           /\ pc' = Finish(cur', linked, out)[1]
           /\ out' = Finish(cur', linked, out)[2]
    /\ UNCHANGED <<uri, force, linked, scanFailed, answer, repo0, gone,
                   interrupted, runs>>
    /\ UNCHANGED others

DeleteAttachments == DeleteDependent("attachment")

DeleteMeasurements == DeleteDependent("measurement")

DeleteEvaluations == DeleteDependent("evaluation")

\* The delete request for the root, addressed by the caller's did and the
\* collection and record key of uri; its failure is returned as an error.
DeleteRoot ==
    /\ pc = "delete"
    /\ cur.phase <= Len(DeletionOrder)
    /\ DeletionOrder[cur.phase] = "root"
    /\ \E ok \in RequestOutcomes :
          LET c == Settle(cur.phase, 2, linked)
          IN  /\ log' = Append(log, [kind |-> "root", owner |-> RequestOwner(uri),
                                     coll |-> uri.coll, rkey |-> uri.rkey,
                                     ok |-> ok])
              /\ repo' = IF ok /\ RequestOwner(uri) = did
                         THEN DeleteRecord(repo, uri.coll, uri.rkey)
                         ELSE repo
              /\ fails' = fails + Failed(ok)
              /\ IF RootDeleteError(ok)
                 THEN /\ pc' = "done"
                      /\ out' = Out("rooterr", TRUE, out.prompt, NoCounts)
                      /\ cur' = cur
                 ELSE /\ cur' = c
                      /\ pc' = Finish(c, linked, out)[1]
                      /\ out' = Finish(c, linked, out)[2]
    /\ UNCHANGED <<uri, force, linked, warnings, skipped, scanFailed, answer,
                   repo0, gone, interrupted, runs>>
    /\ UNCHANGED others

\* The process is killed between two requests of an invocation.
Crash ==
    /\ pc \in {"find", "confirm", "delete"}
    /\ pc' = "crashed"
    /\ interrupted' = interrupted \cup {uri}
    /\ UNCHANGED <<repo, uri, force, linked, cur, out, warnings, log, skipped,
                   scanFailed, answer, repo0, gone, runs, fails>>
    /\ UNCHANGED others

Next ==
    \/ Begin
    \/ FindLinked
    \/ Confirm
    \/ DeleteAttachments
    \/ DeleteMeasurements
    \/ DeleteEvaluations
    \/ DeleteRoot
    \/ Crash

Spec == Init /\ [][Next]_<<vars, others>>

TypeOK ==
    /\ pc \in {"idle", "find", "confirm", "delete", "done", "crashed"}
    /\ runs \in 0..MaxRuns
    /\ fails \in 0..MaxFail
    /\ repo \subseteq repo0

\* ================================================================ claims
\* The root record an invocation addresses: collection and key of uri in the
\* caller's repository.
RootPresent(rp) == \E r \in rp : r.coll = uri.coll /\ r.rkey = uri.rkey

\* The run has removed the root.
RootRemoved == RootPresent(repo0) /\ ~RootPresent(repo)

\* r is a dependent of target t: a measurement or evaluation whose subject is
\* t, or an attachment with t among its subjects.
IsDependentOf(r, t) ==
    \/ /\ r.coll \in {CollectionMeasurement, CollectionEvaluation}
       /\ r.subject.uri = t
    \/ /\ r.coll = CollectionAttachment
       /\ \E i \in DOMAIN r.subjects : r.subjects[i].uri = t

KindOfRec(r) ==
    CASE r.coll = CollectionMeasurement -> "measurement"
      [] r.coll = CollectionAttachment -> "attachment"
      [] r.coll = CollectionEvaluation -> "evaluation"
      [] OTHER -> "none"

\* The URIs the three scans of this invocation returned.
Discovered ==
    { linked.measurementURIs[i] : i \in DOMAIN linked.measurementURIs } \cup
    { linked.attachmentURIs[i] : i \in DOMAIN linked.attachmentURIs } \cup
    { linked.evaluationURIs[i] : i \in DOMAIN linked.evaluationURIs }

\* Positions of the log.
RequestsFor(u) ==
    { i \in DOMAIN log : log[i].kind # "root" /\ log[i].coll = u.coll
                         /\ log[i].rkey = u.rkey }

RootRequests == { i \in DOMAIN log : log[i].kind = "root" }

FailedDependentRequests == { i \in DOMAIN log : log[i].kind # "root" /\ ~log[i].ok }

WasSkipped(u) == \E i \in DOMAIN skipped : skipped[i] = u

Rank(kind) ==
    CASE kind = "attachment" -> 1
      [] kind = "measurement" -> 2
      [] kind = "evaluation" -> 3
      [] kind = "root" -> 4

\* C1: the delete requests of a run are issued attachments first, then
\* measurements, then evaluations, and the request for the root is issued only
\* once every discovered dependent has had a delete request or was skipped
\* because its URI does not parse.
C1_DeletionOrder ==
    /\ \A i, j \in DOMAIN log : i < j => Rank(log[i].kind) <= Rank(log[j].kind)
    /\ RootRequests # {} =>
         \A u \in Discovered : RequestsFor(u) # {} \/ WasSkipped(u)

C1_Witness ==
    /\ pc = "done"
    /\ out.result = "deleted"
    /\ \A k \in Kinds \cup {"root"} : \E i \in DOMAIN log : log[i].kind = k
    /\ skipped # <<>>

\* C2 as stated, in the runs it names: every scan succeeded, every URI
\* parsed, some dependent delete requests may have failed; whenever the root
\* is gone, no record referencing the root is still present.
C2_NoOrphanEver ==
    (RootRemoved /\ scanFailed = {} /\ skipped = <<>>) =>
      \A r \in repo : ~IsDependentOf(r, uri)

\* C2 amended: once the run has removed the root, every dependent the scans
\* returned has had its delete attempted or was skipped as malformed; a record
\* referencing the root is still present only if its delete request failed,
\* its URI does not parse, or the listing of its collection failed.
C2_NoUnattemptedDependent ==
    RootRemoved =>
      /\ \A u \in Discovered : RequestsFor(u) # {} \/ WasSkipped(u)
      /\ \A r \in repo :
           IsDependentOf(r, uri) =>
             \/ \E i \in RequestsFor(EntryURI(r)) : ~log[i].ok
             \/ ParseFails(EntryURI(r))
             \/ KindOfRec(r) \in scanFailed

C2_Witness ==
    /\ RootRemoved
    /\ pc = "crashed" \/ pc = "done"
    /\ \E r \in repo : /\ IsDependentOf(r, uri)
                       /\ \E i \in RequestsFor(EntryURI(r)) : ~log[i].ok
    /\ \E r \in repo0 \ repo : IsDependentOf(r, uri)

\* C3: a run whose root is absent ends at the existence check with the
\* not-found error, has issued no delete request and has left the repository
\* as it was.
C3_MissingRoot ==
    (runs > 0 /\ ~ParseFails(uri) /\ ~RootPresent(repo0)) =>
      /\ pc = "done"
      /\ out.result = "notfound"
      /\ out.err
      /\ log = <<>>
      /\ repo = repo0

C3_Witness ==
    /\ runs = 2
    /\ out.result = "notfound"
    /\ \E r \in gone : r.coll = uri.coll /\ r.rkey = uri.rkey
    /\ \E r \in gone : IsDependentOf(r, uri)

\* C4: after the operator declines the confirmation of a non-forced run with
\* linked records, no delete request was issued, the repository is as it was
\* and nothing is reported as deleted.
C4_Declined ==
    answer = "no" =>
      /\ ~force
      /\ totalLinked(linked) > 0
      /\ pc = "done"
      /\ out.result = "aborted"
      /\ ~out.err
      /\ out.deleted = NoCounts
      /\ log = <<>>
      /\ warnings = <<>>
      /\ repo = repo0
      /\ RootPresent(repo)

C4_Witness ==
    /\ answer = "no"
    /\ pc = "done"
    /\ Cardinality({ r \in repo : IsDependentOf(r, uri) }) >= 2

\* The run entered its deletion phase and returned.
DeletionPhaseOver == pc = "done" /\ out.result \in {"deleted", "rooterr"}

\* C5 as stated: after the deletion phase a delete request was issued for
\* every discovered dependent, whatever failed, then for the root, with one
\* warning per failed dependent delete.
C5_RequestForEveryDiscovered ==
    DeletionPhaseOver =>
      /\ \A u \in Discovered : RequestsFor(u) # {}
      /\ Len(warnings) = Cardinality(FailedDependentRequests)

\* C5 amended: a failed dependent delete never stops the cascade: after the
\* deletion phase a delete request was issued for every discovered dependent
\* whose URI parses, and last for the root, and the warnings are exactly the
\* failed dependent deletes, one each, in order.
C5_FailureDoesNotStop ==
    /\ pc = "delete" =>
         \A u \in Discovered :
           (RequestsFor(u) = {} /\ ~WasSkipped(u)) => RootRequests = {}
    /\ DeletionPhaseOver =>
         /\ \A u \in Discovered : ~ParseFails(u) => Cardinality(RequestsFor(u)) = 1
         /\ log # <<>>
         /\ log[Len(log)].kind = "root"
    /\ pc \in {"delete", "done", "crashed"} =>
         /\ Len(warnings) = Cardinality(FailedDependentRequests)
         /\ \A n \in DOMAIN warnings :
              \E i \in FailedDependentRequests :
                /\ log[i].kind = warnings[n].kind
                /\ log[i].rkey = warnings[n].rkey
                /\ Cardinality({ j \in FailedDependentRequests : j <= i }) = n

C5_Witness ==
    /\ DeletionPhaseOver
    /\ out.result = "deleted"
    /\ Len(warnings) = 1
    /\ Len(linked.measurementURIs) = 2
    /\ \E i, j \in DOMAIN log :
         /\ i < j
         /\ log[i].kind = "measurement" /\ ~log[i].ok
         /\ log[j].kind = "measurement" /\ log[j].ok
    /\ ~RootPresent(repo)

\* The last request of the run was the delete of the root and it failed.
RootDeleteFailed ==
    /\ pc = "done"
    /\ log # <<>>
    /\ log[Len(log)].kind = "root"
    /\ ~log[Len(log)].ok

\* C6: when the delete request for the root fails the run returns an error,
\* prints neither "Deleted activity" nor a per-kind count, the root is still
\* present and the dependents it deleted stay deleted.
C6_RootFailureIsFatal ==
    RootDeleteFailed =>
      /\ out.err
      /\ out.result = "rooterr"
      /\ out.deleted = NoCounts
      /\ RootPresent(repo)
      /\ \A i \in DOMAIN log :
           (log[i].kind # "root" /\ log[i].ok) =>
             ~Present(repo, log[i].coll, log[i].rkey)

C6_Witness ==
    /\ RootDeleteFailed
    /\ \E i \in DOMAIN log : log[i].kind # "root" /\ log[i].ok
    /\ repo # repo0

\* Number of delete requests of one kind that succeeded in this run.
Succeeded(kind) ==
    Cardinality({ i \in DOMAIN log : log[i].kind = kind /\ log[i].ok })

\* C7: the count reported as deleted for each kind is the number of records
\* of that kind whose delete request succeeded in the run.
C7_ReportedIsSucceeded ==
    out.result = "deleted" =>
      \A k \in Kinds : out.deleted[k] = Succeeded(k)

\* C8: in a non-forced run, a failed listing does not lead to the root being
\* deleted without confirmation while dependents of that collection remain.
C8_FailedScanIsNotEmpty ==
    \A k \in scanFailed :
      (/\ ~force
       /\ RootRemoved
       /\ \E r \in repo : KindOfRec(r) = k /\ IsDependentOf(r, uri))
      => answer = "yes"

\* Every request of the run succeeded and the run ended with the root deleted.
CleanRun ==
    /\ pc = "done"
    /\ out.result = "deleted"
    /\ scanFailed = {}
    /\ \A i \in DOMAIN log : log[i].ok

\* Records other than the root and the dependents of the root.
Unrelated(r) ==
    /\ ~(r.coll = uri.coll /\ r.rkey = uri.rkey)
    /\ ~IsDependentOf(r, uri)

C10_RerunRemovesAllDependents ==
    /\ (RootPresent(repo0) /\ RootRequests = {}) => RootPresent(repo)
    /\ (CleanRun /\ uri \in interrupted /\ answer # "no") =>
         /\ ~RootPresent(repo)
         /\ \A r \in repo : ~IsDependentOf(r, uri)
    /\ \A r \in gone : RequestsFor(EntryURI(r)) = {}

\* C10 amended: the same, except that a remaining dependent whose URI does
\* not parse is still present after the later run.
C10_RerunRemovesParsedDependents ==
    /\ (RootPresent(repo0) /\ RootRequests = {}) => RootPresent(repo)
    /\ (CleanRun /\ uri \in interrupted /\ answer # "no") =>
         /\ ~RootPresent(repo)
         /\ \A r \in repo : IsDependentOf(r, uri) => ParseFails(EntryURI(r))
    /\ \A r \in gone : RequestsFor(EntryURI(r)) = {}

C10_Witness ==
    /\ CleanRun
    /\ runs = 2
    /\ uri \in interrupted
    /\ \E r \in gone : IsDependentOf(r, uri)
    /\ \E i \in DOMAIN log : log[i].kind # "root"
    /\ ~RootPresent(repo)

\* C15: a discovered dependent whose URI does not parse gets no delete
\* request and no warning and stays stored; every other dependent and the
\* root are still processed, and the run can end in success.
C15_MalformedSkipped ==
    /\ \A u \in Discovered :
         ~u.wf =>
           /\ RequestsFor(u) = {}
           /\ \A n \in DOMAIN warnings : warnings[n].rkey # u.rkey
           /\ Present(repo, u.coll, u.rkey)
    /\ Len(warnings) = Cardinality(FailedDependentRequests)
    /\ DeletionPhaseOver =>
         /\ \A u \in Discovered : ~u.wf => WasSkipped(u)
         /\ \A u \in Discovered : u.wf => RequestsFor(u) # {}
         /\ RootRequests # {}

C15_Witness ==
    /\ pc = "done"
    /\ out.result = "deleted"
    /\ ~out.err
    /\ skipped # <<>>
    /\ warnings = <<>>
    /\ \E i \in DOMAIN log : log[i].kind = "measurement" /\ log[i].ok
    /\ \E i \in DOMAIN log : log[i].kind = "attachment" /\ log[i].ok

\* ================================================= findLinkedURIs, paginated
\* deleteActivity idle: the values its variables keep while another operation
\* is modelled.
DeleteOff ==
    /\ repo = StaticRecords
    /\ pc = "off"
    /\ uri = T1
    /\ force = FALSE
    /\ linked = NoLinked
    /\ cur = [phase |-> 1, i |-> 1]
    /\ out = NoOut
    /\ warnings = <<>>
    /\ log = <<>>
    /\ skipped = <<>>
    /\ scanFailed = {}
    /\ answer = "none"
    /\ repo0 = StaticRecords
    /\ gone = {}
    /\ interrupted = {}
    /\ runs = 0
    /\ fails = 0

\* A record as com.atproto.repo.listRecords returns it: decodes = FALSE stands
\* for a nil value or a value that json.Unmarshal rejects.
Raw(rec, decodes) == [rec |-> rec, decodes |-> decodes]

\* A URI that differs from T1 only in the case of its record key.
T1Upper == resolveRecordURI(did, CollectionActivity, "A1")

ScanRec(k, subject, subjects) ==
    Rec(CollectionAttachment, k, TRUE, subject, subjects, <<>>)

\* The raw records a scanned collection may hold.
ScanPool ==
    { Raw(ScanRec("r1", buildStrongRef(T1, "cid0"), <<>>), TRUE),
      Raw(ScanRec("r2", buildStrongRef(T1, "cid1"), <<>>), TRUE),
      Raw(ScanRec("r3", buildStrongRef(T2, "cid0"), <<>>), TRUE),
      Raw(ScanRec("r4", NoRef, <<buildStrongRef(T1, "cid0"),
                                 buildStrongRef(T1, "cid1")>>), TRUE),
      Raw(ScanRec("r5", NoRef, <<buildStrongRef(T2, "cid0"),
                                 buildStrongRef(T1, "cid0")>>), TRUE),
      Raw(ScanRec("r6", NoRef, <<>>), TRUE),
      Raw(ScanRec("r7", buildStrongRef(T1, "cid0"), <<>>), FALSE),
      Raw(ScanRec("r8", buildStrongRef(T1Upper, "cid0"), <<>>), TRUE) }

\* Listings: sequences of distinct raw records.
ScanListings ==
    { l \in UNION { [1..n -> ScanPool] : n \in 0..MaxListing } :
        \A i, j \in DOMAIN l : i # j => l[i] # l[j] }

\* `for _, rec := range resp.Records`: the entries after one more page; a
\* record whose value is nil or does not decode is left out.
AppendDecoded(entries, page) ==
    LET good == SelectSeq(page, LAMBDA x : x.decodes)
    IN  entries \o [i \in 1..Len(good) |-> good[i].rec]

\* Variant: the matches among the pages fetched before the failure are kept.
ScanResultKeepsPartial(entries, linkField, targetURI) ==
    MatchingURIs(entries, linkField, targetURI)

\* ListAllRecords returns (nil, err) when a page request fails and
\* findLinkedURIs then returns nil.
ScanResultOnError(entries, linkField, targetURI) == <<>>

\* The page the server returns for the cursor position c.
PageAt(listing, c) ==
    SubSeq(listing, c + 1, IF c + PageLimit < Len(listing)
                           THEN c + PageLimit ELSE Len(listing))

\* Whether the response carries a non-empty cursor: never with an empty page,
\* always when records remain, and either way after the last record.
CursorChoices(listing, c) ==
    LET page == PageAt(listing, c)
    IN  IF page = <<>> THEN {FALSE}
        ELSE IF c + Len(page) < Len(listing) THEN {TRUE}
        ELSE {TRUE, FALSE}

ScanInit ==
    /\ sListing \in ScanListings
    /\ sField \in {"subject", "subjects"}
    /\ sTarget \in {T1, T2}
    /\ sPc = "list"
    /\ sCursor = 0
    /\ sEntries = <<>>
    /\ sRes = [uris |-> <<>>, failed |-> FALSE]

\* The variables that a scan leaves alone.
notScan == <<vars, pageVars, bulkVars, getVars, moreVars>>

\* One iteration of ListAllRecords inside findLinkedURIs: a page request; on
\* its failure the scan returns nil, after the last page it returns the
\* matches.
ScanListPage ==
    /\ sPc = "list"
    /\ \E ok \in BOOLEAN :
         IF ~ok
         THEN /\ sPc' = "done"
              /\ sRes' = [uris |-> ScanResultOnError(sEntries, sField, sTarget),
                          failed |-> TRUE]
              /\ UNCHANGED <<sCursor, sEntries>>
         ELSE LET page == PageAt(sListing, sCursor)
                  entries == AppendDecoded(sEntries, page)
              IN  \E more \in CursorChoices(sListing, sCursor) :
                    /\ sEntries' = entries
                    /\ sCursor' = sCursor + Len(page)
                    /\ IF more
                       THEN /\ sPc' = "list"
                            /\ sRes' = sRes
                       ELSE /\ sPc' = "done"
                            /\ sRes' = [uris |-> MatchingURIs(entries, sField, sTarget),
                                        failed |-> FALSE]
    /\ UNCHANGED <<sListing, sField, sTarget>>
    /\ UNCHANGED notScan

ScanNext == ScanListPage

\* A scan starts; no other operation runs.
InitScan == ScanInit /\ DeleteOff /\ PagesOff /\ BulkOff /\ GetOff /\ MoreOff

SpecScan == InitScan /\ [][ScanNext]_<<scanVars, notScan>>

\* The raw record at position j references t through the field-path.
ReferencesVia(x, field, t) ==
    /\ x.decodes
    /\ \/ field = "subject" /\ x.rec.subject.uri = t
       \/ field = "subjects" /\ \E i \in DOMAIN x.rec.subjects : x.rec.subjects[i].uri = t

\* Positions of a URI in the result.
ResultPositions(u) == { i \in DOMAIN sRes.uris : sRes.uris[i] = u }

ScanSucceeded == sPc = "done" /\ ~sRes.failed

\* C11: when the listing succeeds the result holds exactly one entry for
\* every listed record that references the target through the field-path, in
\* listing order, and nothing else; a reference's content hash plays no role
\* and a URI that differs in any character does not match.
C11_ExactlyTheReferencing ==
    ScanSucceeded =>
      /\ \A j \in DOMAIN sListing :
           Cardinality(ResultPositions(EntryURI(sListing[j].rec))) =
             IF ReferencesVia(sListing[j], sField, sTarget) THEN 1 ELSE 0
      /\ \A i \in DOMAIN sRes.uris :
           \E j \in DOMAIN sListing : sRes.uris[i] = EntryURI(sListing[j].rec)
      /\ \A i1, i2 \in DOMAIN sRes.uris :
           i1 < i2 =>
             \E j1, j2 \in DOMAIN sListing :
               /\ j1 < j2
               /\ sRes.uris[i1] = EntryURI(sListing[j1].rec)
               /\ sRes.uris[i2] = EntryURI(sListing[j2].rec)

C11_Witness ==
    /\ ScanSucceeded
    /\ sField = "subjects"
    /\ sTarget = T1
    /\ Len(sListing) = 3
    /\ Len(sRes.uris) = 2
    /\ \E j \in DOMAIN sListing : sListing[j].rec.rkey = "r4"
    /\ \E j \in DOMAIN sListing : sListing[j].rec.rkey = "r1"

\* C12: a reference held only in the subject field is found by the "subject"
\* query and not by the "subjects" query; a reference held only in the
\* subjects array is found by the "subjects" query and not by the "subject"
\* query.
C12_FieldPathSeparation ==
    ScanSucceeded =>
      \A j \in DOMAIN sListing :
        LET x == sListing[j]
            inSubject == x.rec.subject = buildStrongRef(sTarget, x.rec.subject.cid)
            inSubjects == \E i \in DOMAIN x.rec.subjects :
                            x.rec.subjects[i] = buildStrongRef(sTarget, x.rec.subjects[i].cid)
            found == ResultPositions(EntryURI(x.rec)) # {}
        IN  /\ (x.decodes /\ inSubject /\ ~inSubjects) => (found <=> sField = "subject")
            /\ (x.decodes /\ inSubjects /\ ~inSubject) => (found <=> sField = "subjects")

C12_Witness ==
    /\ ScanSucceeded
    /\ sField = "subject"
    /\ sTarget = T1
    /\ \E j \in DOMAIN sListing : sListing[j].rec.rkey = "r5"
    /\ \E j \in DOMAIN sListing : sListing[j].rec.rkey = "r2"
    /\ Len(sRes.uris) = 1

\* C13: when a page request fails the scan returns the empty list, whatever
\* the earlier pages held; the result is the complete list of matches or
\* empty, never a part of it.
C13_FailSoftNoPartial ==
    /\ sRes.failed => (sPc = "done" /\ sRes.uris = <<>>)
    /\ sPc = "done" =>
         \/ sRes.uris = <<>>
         \/ \A j \in DOMAIN sListing :
              ReferencesVia(sListing[j], sField, sTarget) =>
                ResultPositions(EntryURI(sListing[j].rec)) # {}

C13_Witness ==
    /\ sRes.failed
    /\ sCursor > 0
    /\ \E i \in DOMAIN sEntries : Matches(sEntries[i], sField, sTarget)
    /\ sRes.uris = <<>>

\* ==================================================== GetAllBacklinkRecords
\* LinkingRecord values the remote index may report.
LinkingRecord(rkey) == [did |-> did, collection |-> CollectionMeasurement, rkey |-> rkey]

LinkingPool == { LinkingRecord("m1"), LinkingRecord("m2") }

\* The non-empty cursors the remote index hands out.
Cursors == {"c1", "c2"}

\* BacklinksResponse: linking_records and cursor (absent, empty or a token).
Responses ==
    [records : UNION { [1..n -> LinkingPool] : n \in 0..MaxPageLen },
     cursor : {NilCursor, ""} \cup Cursors]

\* `resp.Cursor == nil || *resp.Cursor == ""`
NoCursor(resp) == resp.cursor = NilCursor \/ resp.cursor = ""

\* The service returns a page without cursor within n requests from cursor c.
RECURSIVE EndsWithin(_, _, _)
EndsWithin(svc, c, n) ==
    /\ n > 0
    /\ \/ NoCursor(svc[c])
       \/ EndsWithin(svc, svc[c].cursor, n - 1)

\* Remote indexes that eventually return a page without cursor.
Services ==
    { svc \in [{""} \cup Cursors -> Responses] :
        EndsWithin(svc, "", Cardinality(Cursors) + 1) }

\* Variant: only an absent cursor ends the loop.
LoopEndsOnNilOnly(resp) == resp.cursor = NilCursor

\* The break condition of the loop.
LoopEnds(resp) == NoCursor(resp)

\* Variant: every request passes the empty cursor.
NextCursorEmpty(resp) == ""

\* `cursor = *resp.Cursor`
NextCursor(resp) == resp.cursor

PagesInit ==
    /\ pgSvc \in Services
    /\ pgPc = "loop"
    /\ pgCursor = ""
    /\ pgAll = <<>>
    /\ pgLog = <<>>
    /\ pgRes = [records |-> <<>>, err |-> FALSE]

\* The variables that GetAllBacklinkRecords leaves alone.
notPages == <<vars, scanVars, bulkVars, getVars, moreVars>>

\* One iteration of the loop: GetBacklinks with the current cursor; an error
\* returns what was accumulated together with the error.
GetBacklinksPage ==
    /\ pgPc = "loop"
    /\ \E ok \in BOOLEAN :
         /\ pgLog' = Append(pgLog, [cursor |-> pgCursor, ok |-> ok])
         /\ IF ~ok
            THEN /\ pgPc' = "done"
                 /\ pgRes' = [records |-> pgAll, err |-> TRUE]
                 /\ UNCHANGED <<pgCursor, pgAll>>
            ELSE LET resp == pgSvc[pgCursor]
                     all == pgAll \o resp.records
                 IN  /\ pgAll' = all
                     /\ IF LoopEnds(resp)
                        THEN /\ pgPc' = "done"
                             /\ pgRes' = [records |-> all, err |-> FALSE]
                             /\ pgCursor' = pgCursor
                        ELSE /\ pgPc' = "loop"
                             /\ pgRes' = pgRes
                             /\ pgCursor' = NextCursor(resp)
    /\ UNCHANGED pgSvc
    /\ UNCHANGED notPages

PagesNext == GetBacklinksPage

\* GetAllBacklinkRecords starts; no other operation runs.
InitPages == PagesInit /\ DeleteOff /\ ScanOff /\ BulkOff /\ GetOff /\ MoreOff

SpecPages == InitPages /\ [][PagesNext]_<<pageVars, notPages>>

\* The loop is not suspended forever: the process runs until it returns.
SpecPagesFair == SpecPages /\ WF_<<pageVars, notPages>>(GetBacklinksPage)

\* The records of the first n logged requests, concatenated.
RECURSIVE PagesUpTo(_)
PagesUpTo(n) ==
    IF n = 0 THEN <<>> ELSE PagesUpTo(n - 1) \o pgSvc[pgLog[n].cursor].records

C20_Safety ==
    /\ pgLog # <<>> => pgLog[1].cursor = ""
    /\ \A i \in DOMAIN pgLog :
         i > 1 =>
           /\ pgLog[i - 1].ok
           /\ ~NoCursor(pgSvc[pgLog[i - 1].cursor])
           /\ pgLog[i].cursor = pgSvc[pgLog[i - 1].cursor].cursor
    /\ pgPc = "loop" => \A i \in DOMAIN pgLog : pgLog[i].ok /\ ~NoCursor(pgSvc[pgLog[i].cursor])
    /\ pgPc = "done" =>
         /\ pgLog # <<>>
         /\ pgRes.err <=> ~pgLog[Len(pgLog)].ok
         /\ ~pgRes.err =>
              /\ NoCursor(pgSvc[pgLog[Len(pgLog)].cursor])
              /\ pgRes.records = PagesUpTo(Len(pgLog))

\* C20: the first request passes the empty cursor, each later request passes
\* the cursor returned by the previous response, the loop stops at the first
\* response without a (non-empty) cursor and returns the pages concatenated
\* in request order, a failed request ends the loop with an error, and when
\* the service eventually returns a page without cursor the call returns.
C20_Pagination == []C20_Safety /\ <>(pgPc = "done")

C20_Witness ==
    /\ pgPc = "done"
    /\ ~pgRes.err
    /\ Len(pgLog) = 3
    /\ pgSvc[pgLog[3].cursor].cursor = ""
    /\ Len(pgRes.records) = 2

\* ================================= runActivityDelete, the multi-select path
\* fetchActivities: the URIs of the listed activities that parse.
fetchActivities(rp) ==
    LET entries == ListAllRecords(rp, CollectionActivity)
        good == SelectSeq(entries, LAMBDA e : ~ParseFails(EntryURI(e)))
    IN  [i \in 1..Len(good) |-> EntryURI(good[i])]

\* menu.MultiSelect on Enter: the non-empty selections, in the order of items.
Selections(items) ==
    { SelectSeq(items, LAMBDA u : u \in chosen) :
        chosen \in (SUBSET { items[i] : i \in DOMAIN items }) \ {{}} }

\* Variant: a single selected item is confirmed like any other.
ConfirmBulkAlwaysAsks(count) == {"y", "n"}

\* menu.ConfirmBulkDelete: the answers the operator can give; no question is
\* asked for a single item.
ConfirmBulkAnswers(count) == IF count <= 1 THEN {"none"} ELSE {"y", "n"}

\* Variant: the loop proceeds whatever the answer.
ConfirmBulkIgnored(a) == TRUE

\* menu.ConfirmBulkDelete: whether the loop over selected is entered.
ConfirmBulkProceeds(a) == a \in {"none", "y"}

\* Variant: the roots are deleted with the force flag unset.
BulkForceUnset == FALSE

\* The force argument of deleteActivity in the loop over selected.
BulkForce == TRUE

\* Variant: the loop returns at the first error.
BulkAfterStopsOnError(err, idx, n) ==
    IF err THEN "failed" ELSE IF idx = n THEN "done" ELSE "loop"

\* `if err := deleteActivity(...); err != nil { Warning }`: the loop goes on
\* to the next selected root and returns nil after the last one.
BulkAfter(err, idx, n) == IF idx = n THEN "done" ELSE "loop"

\* The variables that the multi-select path leaves alone besides those of
\* deleteActivity.
notBulk == <<scanVars, pageVars, getVars, moreVars>>

\* runActivityDelete without an id up to the loop: list the activities, let
\* the operator select, ask the aggregate confirmation.
BulkSelect ==
    /\ pc \in {"idle", "done", "crashed"}
    /\ bkPc # "loop" \/ pc = "crashed"
    /\ runs < MaxRuns
    /\ bkRepo0' = repo
    /\ bkIdx' = 1
    /\ bkCalls' = <<>>
    /\ bkErrs' = <<>>
    /\ bkWarnings' = <<>>
    /\ \E listOK \in (IF fails < MaxFail THEN {TRUE, FALSE} ELSE {TRUE}) :
         LET items == fetchActivities(repo)
         IN  IF ~listOK \/ items = <<>>
             THEN /\ bkPc' = "failed"
                  /\ bkSelected' = <<>>
                  /\ bkAnswer' = "none"
                  /\ fails' = fails + Failed(listOK)
             ELSE \E cancelled \in BOOLEAN :
                    IF cancelled
                    THEN /\ bkPc' = "failed"
                         /\ bkSelected' = <<>>
                         /\ bkAnswer' = "none"
                         /\ fails' = fails
                    ELSE \E sel \in Selections(items) :
                         \E a \in ConfirmBulkAnswers(Len(sel)) :
                           /\ runs + Len(sel) <= MaxRuns
                           /\ bkSelected' = sel
                           /\ bkAnswer' = a
                           /\ bkPc' = IF ConfirmBulkProceeds(a) THEN "loop" ELSE "aborted"
                           /\ fails' = fails
    /\ UNCHANGED <<repo, pc, uri, force, linked, cur, out, warnings, log, skipped,
                   scanFailed, answer, repo0, gone, interrupted, runs>>
    /\ UNCHANGED notBulk

\* The next iteration of the loop over selected calls deleteActivity.
BulkBegin ==
    /\ bkPc = "loop"
    /\ Len(bkCalls) < bkIdx
    /\ pc \in {"idle", "done"}
    /\ deleteActivityEntry(bkSelected[bkIdx], BulkForce)
    /\ bkCalls' = Append(bkCalls, [uri |-> bkSelected[bkIdx], force |-> BulkForce])
    /\ UNCHANGED <<bkPc, bkSelected, bkIdx, bkErrs, bkWarnings, bkAnswer, bkRepo0>>
    /\ UNCHANGED notBulk

\* deleteActivity has returned to the loop: an error is printed as a warning.
BulkCollect ==
    /\ bkPc = "loop"
    /\ Len(bkCalls) = bkIdx
    /\ pc = "done"
    /\ bkErrs' = Append(bkErrs, out.err)
    /\ bkWarnings' = IF out.err THEN Append(bkWarnings, uri) ELSE bkWarnings
    /\ bkPc' = BulkAfter(out.err, bkIdx, Len(bkSelected))
    /\ bkIdx' = bkIdx + 1
    /\ UNCHANGED <<bkSelected, bkCalls, bkAnswer, bkRepo0>>
    /\ UNCHANGED vars
    /\ UNCHANGED notBulk

\* runActivityDelete: with an id (Begin) or without (BulkSelect), and the
\* steps of the deleteActivity invocations it makes.
BulkNext ==
    \/ Begin
    \/ BulkSelect
    \/ BulkBegin
    \/ BulkCollect
    \/ FindLinked
    \/ Confirm
    \/ DeleteAttachments
    \/ DeleteMeasurements
    \/ DeleteEvaluations
    \/ DeleteRoot
    \/ Crash

\* The initial repositories of the multi-select runs: both activities, with
\* dependents of each.
BulkRepos ==
    { StaticRecords \cup {Activity("a1")} \cup m1 \cup m2 \cup t \cup e :
        m1 \in { {Measurement("m1", TRUE, T1)}, {Measurement("m1", FALSE, T1)} },
        m2 \in { {}, {Measurement("m2", TRUE, T2)} },
        t \in { {Attachment("t1", TRUE, <<T2, T1>>)} },
        e \in { {}, {Evaluation("e1", T1)} } }

BulkInit == Init /\ repo \in BulkRepos

SpecBulk == BulkInit /\ [][BulkNext]_<<vars, others>>

\* The multi-select path is running or has run to its end.
BulkEntered == bkPc \in {"loop", "done"}

\* C14: a declined aggregate confirmation deletes nothing; a granted one
\* invokes deleteActivity exactly once per selected root, in selection order,
\* with force set and without a per-root prompt; an error of one invocation
\* is printed as a warning and the remaining roots are still processed.
C14_BulkDelete ==
    /\ bkPc = "aborted" =>
         /\ bkAnswer = "n"
         /\ bkCalls = <<>>
         /\ repo = bkRepo0
    /\ BulkEntered =>
         /\ bkAnswer # "n"
         /\ Len(bkCalls) <= Len(bkSelected)
         /\ \A i \in DOMAIN bkCalls :
              bkCalls[i] = [uri |-> bkSelected[i], force |-> TRUE]
         /\ \A i \in DOMAIN bkErrs :
              bkErrs[i] <=> \E n \in DOMAIN bkWarnings : bkWarnings[n] = bkSelected[i]
         /\ Len(bkWarnings) = Cardinality({ i \in DOMAIN bkErrs : bkErrs[i] })
         /\ bkCalls # <<>> => (pc # "confirm" /\ answer = "none")
    /\ bkPc = "failed" => bkCalls = <<>>
    /\ bkPc = "done" =>
         /\ Len(bkCalls) = Len(bkSelected)
         /\ Len(bkErrs) = Len(bkSelected)

C14_Witness ==
    /\ bkPc = "done"
    /\ bkAnswer = "y"
    /\ Len(bkSelected) = 2
    /\ bkErrs = <<TRUE, FALSE>>
    /\ bkWarnings = <<T1>>
    /\ out.result = "deleted"
    /\ repo # bkRepo0

\* ============================================================ runActivityGet
\* The backlink categories in the order runActivityGet prints them.
Categories == <<"measurements", "attachments", "evaluations">>

CategorySet == { Categories[i] : i \in DOMAIN Categories }

CategoryCollection(c) ==
    CASE c = "measurements" -> CollectionMeasurement
      [] c = "attachments" -> CollectionAttachment
      [] c = "evaluations" -> CollectionEvaluation

PathSubject == ".subject.uri"
PathSubjects == ".subjects[].uri"

\* The field-paths queried for a category, in the order they are tried.
PathsOf(c) == IF c = "attachments" THEN <<PathSubjects, PathSubject>> ELSE <<PathSubject>>

\* The (category, path) pairs for which the remote index holds matches.
IndexKeys ==
    UNION { { <<c, PathsOf(c)[i]>> : i \in DOMAIN PathsOf(c) } : c \in CategorySet }

\* Record keys of the matched records of a category.
MatchedKeys(c) ==
    CASE c = "measurements" -> <<"m1", "m2", "m3", "m4">>
      [] c = "attachments" -> <<"t1", "t2", "t3", "t4">>
      [] c = "evaluations" -> <<"e1", "e2", "e3", "e4">>

\* A stored record with its content hash.
StoredRecord(coll, rkey, cid) == [coll |-> coll, rkey |-> rkey, cid |-> cid]

GetStore ==
    { StoredRecord(CollectionActivity, "a1", "cid0"),
      StoredRecord(CollectionMeasurement, "m1", "cid0"),
      StoredRecord(CollectionAttachment, "t1", "cid0"),
      StoredRecord(CollectionEvaluation, "e1", "cid0") }

\* The arguments an operator may pass to `activity get`: a1, a2 (not stored
\* here) and a string that does not make a valid URI.
GetArgs == {T1, T2, TBad}

\* A request to the repository host or to the remote index.
Request(method, coll, rkey) == [method |-> method, coll |-> coll, rkey |-> rkey]

\* The effect of a request on the stored records.
ApplyRequest(store, req) ==
    CASE req.method = "delete" ->
           { r \in store : ~(r.coll = req.coll /\ r.rkey = req.rkey) }
      [] req.method = "put" ->
           { IF r.coll = req.coll /\ r.rkey = req.rkey
             THEN [r EXCEPT !.cid = "cid1"] ELSE r : r \in store }
      [] req.method = "create" ->
           store \cup {StoredRecord(req.coll, req.rkey, "cid0")}
      [] OTHER -> store

RECURSIVE ApplyAll(_, _)
ApplyAll(store, reqs) ==
    IF reqs = <<>> THEN store
    ELSE ApplyAll(ApplyRequest(store, Head(reqs)), Tail(reqs))

MethodsOf(reqs) == { reqs[i].method : i \in DOMAIN reqs }

\* atproto.GetRecord on the root.
RootRequest(u) == Request("get", u.coll, u.rkey)

\* GetBacklinks / GetAllBacklinks: an HTTP GET on the remote index.
IndexRequest(c) == Request("list", c, "")

\* ListAllRecords as issued by findLinkedURIs and findCollectionsContaining.
ScanRequest(coll) == Request("list", coll, "")

\* Variant: fetching a matched record rewrites it.
FetchRequestPut(c, i) == Request("put", CategoryCollection(c), MatchedKeys(c)[i])

\* atproto.GetRecord on the i-th matched record of a category.
FetchRequest(c, i) == Request("get", CategoryCollection(c), MatchedKeys(c)[i])

\* The outcomes an index request can have.
QueryOutcomes == IF gIndexState = "down" THEN {FALSE} ELSE {TRUE, FALSE}

\* The result of GetAllBacklinkRecords as runActivityGet uses it: the error
\* and the number of records (records returned with an error are not used).
QueryResult(c, path, ok) ==
    [path |-> path, ok |-> ok, n |-> IF ok THEN gIndex[<<c, path>>] ELSE 0]

\* `if err != nil { // Try alternate path`
FallbackOn(q) == ~q.ok

NoHeader == 0 - 1

\* The output of a category that printed nothing.
NoCat == [warnings |-> 0, header |-> NoHeader, rows |-> <<>>]

\* The table rows: one per matched record, a placeholder when its fetch failed.
TableRows(f) == [i \in 1..Len(f) |-> IF f[i] THEN "row" ELSE "failed to fetch"]

\* printBacklinkRecordsJSON: the records whose fetch succeeded.
JSONRows(f) ==
    LET good == SelectSeq(f, LAMBDA b : b)
    IN  [i \in 1..Len(good) |-> "row"]

\* What one category prints: a warning when the query failed, else the
\* header with the number of matches and the rows.
CategoryOut(json, q, f) ==
    IF ~q.ok
    THEN [warnings |-> 1, header |-> NoHeader, rows |-> <<>>]
    ELSE [warnings |-> 0, header |-> q.n,
          rows |-> IF json THEN JSONRows(f) ELSE TableRows(f)]

\* The requested categories that come after position k.
Remaining(show, k) == { i \in DOMAIN Categories : i > k /\ show[Categories[i]] }

StageFrom(show, k) ==
    IF Remaining(show, k) = {} THEN "done"
    ELSE Categories[CHOOSE i \in Remaining(show, k) : \A j \in Remaining(show, k) : i <= j]

PositionOf(c) == CHOOSE i \in DOMAIN Categories : Categories[i] = c

\* Variant: a category whose query failed ends the command.
StageAfterStopsOnError(show, c, failed) ==
    IF failed THEN "done" ELSE StageFrom(show, PositionOf(c))

\* The `if show...` blocks are independent: the next requested category runs
\* whatever happened in this one.
StageAfter(show, c, failed) == StageFrom(show, PositionOf(c))

NoFlags == [show |-> [c \in CategorySet |-> FALSE], json |-> FALSE]
NoQueries == [c \in CategorySet \cup {"summary"} |-> <<>>]
NoFetches == [c \in CategorySet |-> <<>>]
GetOut(err, root, counts) ==
    [err |-> err, root |-> root, counts |-> counts, cats |-> [c \in CategorySet |-> NoCat]]

GetInit ==
    /\ gPc = "idle"
    /\ gIndex \in [IndexKeys -> 0..MaxMatched]
    /\ gIndexState \in {"down", "flaky"}
    /\ gStore = GetStore
    /\ gFlags = NoFlags
    /\ gRootOK = FALSE
    /\ gQueries = NoQueries
    /\ gFetches = NoFetches
    /\ gOut = GetOut(FALSE, FALSE, "none")
    /\ gMethods = {}

\* The variables that runActivityGet leaves alone.
notGet == <<vars, scanVars, pageVars, bulkVars, moreVars>>

\* The requests an action issues reach the store, and their methods are
\* recorded.
Issue(reqs) ==
    /\ gStore' = ApplyAll(gStore, reqs)
    /\ gMethods' = gMethods \cup MethodsOf(reqs)

\* runActivityGet up to the flags: parse the URI, get the root record.
GetStart ==
    /\ gPc = "idle"
    /\ \E u \in GetArgs, m, a, e, all, json \in BOOLEAN :
         LET show == [c \in CategorySet |->
                        all \/ (c = "measurements" /\ m) \/ (c = "attachments" /\ a)
                            \/ (c = "evaluations" /\ e)]
             showBacklinks == \E c \in CategorySet : show[c]
         IN  /\ gFlags' = [show |-> show, json |-> json]
             /\ IF ParseFails(u)
                THEN /\ gPc' = "done"
                     /\ gRootOK' = FALSE
                     /\ gOut' = GetOut(TRUE, FALSE, "none")
                     /\ Issue(<<>>)
                ELSE \E ok \in GetRecordOutcomes(gStore, u.coll, u.rkey, TRUE) :
                       /\ gRootOK' = ok
                       /\ Issue(<<RootRequest(u)>>)
                       /\ IF ~ok
                          THEN /\ gPc' = "done"
                               /\ gOut' = GetOut(TRUE, FALSE, "none")
                          ELSE /\ gPc' = IF showBacklinks THEN StageFrom(show, 0) ELSE "summary"
                               /\ gOut' = GetOut(FALSE, showBacklinks, "none")
    /\ gQueries' = NoQueries
    /\ gFetches' = NoFetches
    /\ UNCHANGED <<gIndex, gIndexState>>
    /\ UNCHANGED notGet

\* The total of the counts of the summary.
RECURSIVE SumIndex(_)
SumIndex(keys) ==
    IF keys = {} THEN 0
    ELSE LET k == CHOOSE x \in keys : TRUE IN gIndex[k] + SumIndex(keys \ {k})

\* No backlink flag: the record as JSON, with the counts of the summary when
\* GetAllBacklinks succeeds and reports any.
GetSummary ==
    /\ gPc = "summary"
    /\ \E ok \in QueryOutcomes :
         LET total == IF ok THEN SumIndex(IndexKeys) ELSE 0
         IN  /\ gQueries' = [gQueries EXCEPT !["summary"] =
                               <<[path |-> "", ok |-> ok, n |-> total]>>]
             /\ gOut' = [gOut EXCEPT !.root = TRUE,
                                     !.counts = IF ok /\ total > 0 THEN "shown" ELSE "omitted"]
             /\ Issue(<<IndexRequest("")>>)
    /\ gPc' = "done"
    /\ UNCHANGED <<gIndex, gIndexState, gFlags, gRootOK, gFetches>>
    /\ UNCHANGED notGet

\* One `if show<Category>` block: the index query (for attachments a second
\* one on the alternate path when FallbackOn), then one GetRecord per matched
\* record, printed as a table or through printBacklinkRecordsJSON.
GetCategory(c) ==
    /\ gPc = c
    /\ \E ok1, ok2 \in QueryOutcomes :
         LET q1 == QueryResult(c, PathsOf(c)[1], ok1)
             second == Len(PathsOf(c)) > 1 /\ FallbackOn(q1)
             qs == IF second THEN <<q1, QueryResult(c, PathsOf(c)[2], ok2)>> ELSE <<q1>>
             final == qs[Len(qs)]
         IN  \E f \in [1..final.n -> BOOLEAN] :
               /\ gQueries' = [gQueries EXCEPT ![c] = qs]
               /\ gFetches' = [gFetches EXCEPT ![c] = f]
               /\ gOut' = [gOut EXCEPT !.cats[c] = CategoryOut(gFlags.json, final, f)]
               /\ Issue([i \in 1..Len(qs) |-> IndexRequest(c)]
                          \o [i \in 1..final.n |-> FetchRequest(c, i)])
               /\ gPc' = StageAfter(gFlags.show, c, ~final.ok)
    /\ UNCHANGED <<gIndex, gIndexState, gFlags, gRootOK>>
    /\ UNCHANGED notGet

\* The command has returned and the process exits: the next invocation starts
\* with nothing but the stored records and the remote index.
GetExit ==
    /\ gPc = "done"
    /\ gPc' = "idle"
    /\ gFlags' = NoFlags
    /\ gRootOK' = FALSE
    /\ gQueries' = NoQueries
    /\ gFetches' = NoFetches
    /\ gOut' = GetOut(FALSE, FALSE, "none")
    /\ UNCHANGED <<gIndex, gIndexState, gStore, gMethods>>
    /\ UNCHANGED notGet

GetMeasurements == GetCategory("measurements")
GetAttachments == GetCategory("attachments")
GetEvaluations == GetCategory("evaluations")

\* An invocation of findLinkedURIs or findCollectionsContaining: one listing
\* of a collection.
BacklinkScan ==
    /\ gPc \in {"idle", "done"}
    /\ \E coll \in {CollectionMeasurement, CollectionAttachment,
                    CollectionEvaluation, CollectionCollection} :
         Issue(<<ScanRequest(coll)>>)
    /\ UNCHANGED <<gPc, gIndex, gIndexState, gFlags, gRootOK, gQueries, gFetches, gOut>>
    /\ UNCHANGED notGet

GetNext ==
    \/ GetStart
    \/ GetSummary
    \/ GetMeasurements
    \/ GetAttachments
    \/ GetEvaluations
    \/ GetExit
    \/ BacklinkScan

\* The command line is idle; no other operation runs.
InitGet == GetInit /\ DeleteOff /\ ScanOff /\ PagesOff /\ BulkOff /\ MoreOff

SpecGet == InitGet /\ [][GetNext]_<<getVars, notGet>>

\* runActivityGet has returned after fetching the root.
GetReturned == gPc = "done" /\ gRootOK

\* The result of the last index query made for a category.
FinalQuery(c) == gQueries[c][Len(gQueries[c])]

\* C16: the backlink scans and runActivityGet issue only get and list
\* requests, and the stored records and their content hashes never change.
C16_ReadOnly ==
    /\ gMethods \subseteq {"get", "list"}
    /\ gStore = GetStore

C16_Witness ==
    /\ GetReturned
    /\ gFetches["measurements"] = <<TRUE, FALSE>>
    /\ gFlags.show["evaluations"] /\ ~FinalQuery("evaluations").ok
    /\ gMethods = {"get", "list"}

\* C17: with the root fetched the command returns it without error whatever
\* the remote index does; a requested category whose query fails prints one
\* warning and no rows, one whose query succeeds prints its header whatever
\* happened to the other categories, an unrequested one prints nothing; with
\* no category requested a failed summary only leaves the counts out.
C17_Degrades ==
    GetReturned =>
      /\ ~gOut.err
      /\ gOut.root
      /\ \A c \in CategorySet :
           IF gFlags.show[c]
           THEN /\ gQueries[c] # <<>>
                /\ ~FinalQuery(c).ok =>
                     gOut.cats[c] = [warnings |-> 1, header |-> NoHeader, rows |-> <<>>]
                /\ FinalQuery(c).ok =>
                     /\ gOut.cats[c].warnings = 0
                     /\ gOut.cats[c].header = gIndex[<<c, FinalQuery(c).path>>]
                /\ gIndexState = "down" => ~FinalQuery(c).ok
           ELSE gOut.cats[c] = NoCat /\ gQueries[c] = <<>>
      /\ (\A c \in CategorySet : ~gFlags.show[c]) =>
           /\ gQueries["summary"] # <<>>
           /\ ~gQueries["summary"][1].ok => gOut.counts = "omitted"

C17_Witness ==
    /\ GetReturned
    /\ gIndexState = "flaky"
    /\ \A c \in CategorySet : gFlags.show[c]
    /\ ~FinalQuery("measurements").ok
    /\ Len(gQueries["attachments"]) = 2 /\ ~FinalQuery("attachments").ok
    /\ gOut.cats["evaluations"].header = 2
    /\ gOut.cats["evaluations"].rows = <<"row", "failed to fetch">>

\* C18: a requested category with n matched records of which k fail to be
\* fetched prints n rows, exactly k of them placeholders, in the table and in
\* the JSON format.
C18_RowsWithPlaceholders ==
    GetReturned =>
      \A c \in CategorySet :
        (gFlags.show[c] /\ FinalQuery(c).ok) =>
          /\ Len(gOut.cats[c].rows) = FinalQuery(c).n
          /\ Cardinality({ i \in DOMAIN gOut.cats[c].rows :
                             gOut.cats[c].rows[i] = "failed to fetch" })
               = Cardinality({ i \in DOMAIN gFetches[c] : ~gFetches[c][i] })

\* C19: for attachments the array path is queried first, and the single path
\* is queried next exactly when the first query failed or matched nothing.
C19_FallbackOnErrorAndEmpty ==
    (GetReturned /\ gFlags.show["attachments"]) =>
      LET qs == gQueries["attachments"]
      IN  /\ qs[1].path = PathSubjects
          /\ (~qs[1].ok \/ qs[1].n = 0) <=> (Len(qs) = 2 /\ qs[2].path = PathSubject)

\* =================================================== further claims on Spec
\* The three lists of discovered URIs one after the other.
AllLinked == linked.attachmentURIs \o linked.measurementURIs \o linked.evaluationURIs

\* C27: within one run no record receives two delete requests: a failed
\* delete of a dependent is not requested again, no URI is discovered twice
\* (in one list or in two), and the root is requested at most once.
C27_AtMostOneDeletePerRecord ==
    /\ \A i, j \in DOMAIN log :
         (log[i].coll = log[j].coll /\ log[i].rkey = log[j].rkey) => i = j
    /\ \A i, j \in DOMAIN AllLinked : AllLinked[i] = AllLinked[j] => i = j
    /\ Cardinality(RootRequests) <= 1

C27_Witness ==
    /\ pc = "done"
    /\ out.result = "deleted"
    /\ Len(log) >= 3
    /\ \E i \in DOMAIN log : log[i].kind = "measurement" /\ ~log[i].ok
    /\ \E i \in DOMAIN log : log[i].kind = "root" /\ log[i].ok

\* C29: an attachment is deleted as soon as one element of its subjects
\* references the root, whatever its other elements reference: after a clean
\* run every such attachment (with a URI that parses) is gone, also when
\* another activity it references still exists.
C29_SharedAttachmentDeleted ==
    CleanRun =>
      \A r \in repo0 :
        ( /\ r.coll = CollectionAttachment
          /\ r.wf
          /\ \E i \in DOMAIN r.subjects : r.subjects[i].uri = uri ) => r \notin repo

C29_Witness ==
    /\ CleanRun
    /\ uri = T1
    /\ Attachment("t1", TRUE, <<T2, T1>>) \in repo0 \ repo
    /\ Activity("a2") \in repo

\* The existence check of this invocation has succeeded.
RootWasFound ==
    \/ pc \in {"find", "confirm", "delete"}
    \/ pc = "done" /\ out.result \notin {"invalid", "notfound", "none"}

\* C30: every request of deleteActivity is addressed to the caller's
\* identity: no delete request names another owner, the existence check
\* passes only when the caller's repository holds a record with the
\* collection and key of the URI, and a successful root delete removes that
\* record from the caller's repository, also when the URI names another
\* owner.
C30_OwnRepositoryOnly ==
    /\ \A i \in DOMAIN log : log[i].owner = did
    /\ RootWasFound => Present(repo0, uri.coll, uri.rkey)
    /\ \A i \in DOMAIN log :
         (log[i].kind = "root" /\ log[i].ok) => ~Present(repo, uri.coll, uri.rkey)

C30_Witness ==
    /\ uri = T3
    /\ pc = "done"
    /\ out.result = "deleted"
    /\ Activity("a1") \in repo0 \ repo
    /\ \E i \in DOMAIN log : log[i].kind = "evaluation" /\ log[i].ok

Alphabet == {"at:", "/", " ", "k"}

Strings == UNION { [1..n -> Alphabet] : n \in 0..MaxStr }

\* The did and collection arguments.
Owners == { <<"d">>, <<"e">> }
Colls == { <<"c">>, <<"n">> }

\* "at://"
AtScheme == <<"at:", "/", "/">>

\* strings.HasPrefix
HasPrefix(s, p) == Len(s) >= Len(p) /\ SubSeq(s, 1, Len(p)) = p

\* strings.TrimPrefix
TrimPrefix(s, p) == IF HasPrefix(s, p) THEN SubSeq(s, Len(p) + 1, Len(s)) ELSE s

\* strings.Split(s, sep) for a one-symbol separator.
RECURSIVE SplitOn(_, _)
SplitOn(s, sep) ==
    IF \A i \in DOMAIN s : s[i] # sep
    THEN <<s>>
    ELSE LET k == CHOOSE i \in DOMAIN s : s[i] = sep /\ \A j \in 1..(i - 1) : s[j] # sep
         IN  <<SubSeq(s, 1, k - 1)>> \o SplitOn(SubSeq(s, k + 1, Len(s)), sep)

\* Variant: the URI is always built from the three arguments.
resolveAlwaysBuilds(d, collection, idOrURI) ==
    AtScheme \o d \o <<"/">> \o collection \o <<"/">> \o idOrURI

\* resolveRecordURI on strings: a string that starts with "at://" is
\* returned as it is, anything else is formatted as at://did/collection/id.
resolveRecordURIString(d, collection, idOrURI) ==
    IF HasPrefix(idOrURI, AtScheme)
    THEN idOrURI
    ELSE AtScheme \o d \o <<"/">> \o collection \o <<"/">> \o idOrURI

\* The segments after the scheme.
PathParts(s) == SplitOn(TrimPrefix(s, AtScheme), "/")

\* syntax.ParseATURI accepts at most at://authority/collection/rkey with
\* non-empty segments free of "/" and blanks; which of those it accepts
\* depends on the characters, so both outcomes are kept.
ParseOutcomes(s) ==
    IF /\ HasPrefix(s, AtScheme)
       /\ Len(PathParts(s)) \in 1..3
       /\ \A i \in DOMAIN PathParts(s) :
            /\ PathParts(s)[i] # <<>>
            /\ \A j \in DOMAIN PathParts(s)[i] : PathParts(s)[i][j] # " "
    THEN {TRUE, FALSE}
    ELSE {FALSE}

\* ATURI.RecordKey of a parsed URI: the third segment, empty if there is none.
RecordKey(s) == IF Len(PathParts(s)) = 3 THEN PathParts(s)[3] ELSE <<>>

\* Variant: the last segment is taken.
ExtractRkeyLast(s, parsed) ==
    IF ~parsed
    THEN IF Len(PathParts(s)) >= 3 THEN PathParts(s)[Len(PathParts(s))] ELSE s
    ELSE RecordKey(s)

\* atproto.ExtractRkey, given whether ParseATURI accepted the string.
ExtractRkey(s, parsed) ==
    IF ~parsed
    THEN IF Len(PathParts(s)) >= 3 THEN PathParts(s)[3] ELSE s
    ELSE RecordKey(s)

StrInit ==
    /\ strPc = "start"
    /\ strIn \in Strings
    /\ strOwner \in Owners
    /\ strColl \in Colls
    /\ strURI = <<>>
    /\ strURI2 = <<>>
    /\ strKey = <<>>
    /\ strRaw = [value |-> <<>>, parsed |-> FALSE]

\* The variables that the string functions leave alone.
notStr == <<vars, scanVars, pageVars, bulkVars, getVars, promptVars, cmdVars>>

\* resolveRecordURI(did, collection, idOrURI)
StrResolve ==
    /\ strPc = "start"
    /\ strURI' = resolveRecordURIString(strOwner, strColl, strIn)
    /\ strPc' = "resolved"
    /\ UNCHANGED <<strIn, strOwner, strColl, strURI2, strKey, strRaw>>
    /\ UNCHANGED notStr

\* resolveRecordURI applied to its own result, with any did and collection.
StrResolveAgain ==
    /\ strPc = "resolved"
    /\ \E o \in Owners, c \in Colls : strURI2' = resolveRecordURIString(o, c, strURI)
    /\ strPc' = "again"
    /\ UNCHANGED <<strIn, strOwner, strColl, strURI, strKey, strRaw>>
    /\ UNCHANGED notStr

\* extractRkey applied to the resolved URI and to the raw input.
StrExtract ==
    /\ strPc = "again"
    /\ \E p1 \in ParseOutcomes(strURI), p2 \in ParseOutcomes(strIn) :
         /\ strKey' = ExtractRkey(strURI, p1)
         /\ strRaw' = [value |-> ExtractRkey(strIn, p2), parsed |-> p2]
    /\ strPc' = "done"
    /\ UNCHANGED <<strIn, strOwner, strColl, strURI, strURI2>>
    /\ UNCHANGED notStr

StrNext ==
    \/ StrResolve
    \/ StrResolveAgain
    \/ StrExtract

\* The string functions are applied; no other operation runs.
InitStr ==
    StrInit /\ DeleteOff /\ ScanOff /\ PagesOff /\ BulkOff /\ GetOff /\ PromptOff
    /\ CmdOff

SpecStr == InitStr /\ [][StrNext]_<<strVars, notStr>>

\* C22: an input that starts with "at://" is returned unchanged whatever did
\* and collection are passed, any other input gives at://did/collection/id,
\* and resolving the result again with any did and collection returns it.
C22_ResolveIdempotent ==
    /\ strPc \in {"resolved", "again", "done"} =>
         IF HasPrefix(strIn, AtScheme)
         THEN strURI = strIn
         ELSE /\ HasPrefix(strURI, AtScheme \o strOwner \o <<"/">> \o strColl \o <<"/">>)
              /\ Len(strURI) = Len(strIn) + 5 + Len(strOwner) + Len(strColl)
              /\ SubSeq(strURI, Len(strURI) - Len(strIn) + 1, Len(strURI)) = strIn
    /\ strPc \in {"again", "done"} => strURI2 = strURI

C22_Witness ==
    /\ strPc = "done"
    /\ strIn = <<"at:", "/", "/", "k", "/", "k">>
    /\ strURI2 = strIn

\* A record key: a string without "/".
IsKey(s) == \A i \in DOMAIN s : s[i] # "/"

\* The positions of "/" after the scheme, and the third segment they bound.
SlashesOf(t) == { i \in DOMAIN t : t[i] = "/" }

ThirdSegment(t) ==
    LET before(i) == Cardinality({ j \in SlashesOf(t) : j < i })
    IN  SelectSeq([i \in DOMAIN t |-> IF t[i] # "/" /\ before(i) = 2 THEN t[i] ELSE "/"],
                  LAMBDA x : x # "/")

\* C23: extractRkey returns the key of a URI built from (did, collection,
\* key); for an input that does not parse it returns the third segment after
\* the scheme when there are at least three segments and the input itself
\* otherwise; it always returns a value.
C23_ExtractInvertsResolve ==
    strPc = "done" =>
      /\ IsKey(strIn) => strKey = strIn
      /\ ~strRaw.parsed =>
           LET t == TrimPrefix(strIn, AtScheme)
           IN  strRaw.value = IF Cardinality(SlashesOf(t)) >= 2 THEN ThirdSegment(t) ELSE strIn

C23_Witness ==
    /\ strPc = "done"
    /\ strIn = <<"k", " ", "k">>
    /\ strKey = strIn
    /\ strURI = <<"at:", "/", "/", "d", "/", "c", "/", "k", " ", "k">>

\* ========================================== menu.Confirm, prompt.ReadRequired
\* The bytes of an input: letters in two cases, a blank and the newline.
InputBytes == {"y", "Y", "e", "s", " ", "\n"}

Inputs == UNION { [1..n -> InputBytes] : n \in 0..MaxInput }

IsSpace(b) == b = " " \/ b = "\n"

\* strings.TrimSpace
TrimSpace(s) ==
    LET solid == { i \in DOMAIN s : ~IsSpace(s[i]) }
    IN  IF solid = {} THEN <<>>
        ELSE SubSeq(s, CHOOSE i \in solid : \A j \in solid : i <= j,
                       CHOOSE i \in solid : \A j \in solid : j <= i)

\* strings.ToLower
ToLower(s) == [i \in DOMAIN s |-> IF s[i] = "Y" THEN "y" ELSE s[i]]

\* bufio.Reader.ReadString('\n') from position pos: the bytes up to and
\* including the next newline, or the rest of the input with io.EOF.
ReadString(in, pos) ==
    LET ends == { i \in DOMAIN in : i > pos /\ in[i] = "\n" }
    IN  IF ends = {}
        THEN [line |-> SubSeq(in, pos + 1, Len(in)), eof |-> TRUE, pos |-> Len(in)]
        ELSE LET k == CHOOSE i \in ends : \A j \in ends : i <= j
             IN  [line |-> SubSeq(in, pos + 1, k), eof |-> FALSE, pos |-> k]

Yes == { <<"y">>, <<"y", "e", "s">> }

\* Variant: an answer that is not terminated by a newline is accepted.
ConfirmAcceptsUnterminated(in) ==
    ToLower(TrimSpace(ReadString(in, 0).line)) \in Yes

\* menu.Confirm / confirmText: false on a read error, else whether the
\* trimmed, lowercased line is "y" or "yes".
ConfirmText(in) ==
    LET r == ReadString(in, 0)
    IN  IF r.eof THEN FALSE ELSE TrimSpace(ToLower(r.line)) \in Yes

\* readLineFrom: the trimmed line, with ErrCancelled at the end of input.
readLineFrom(in, pos) ==
    LET r == ReadString(in, pos)
    IN  [value |-> TrimSpace(r.line), err |-> r.eof, pos |-> r.pos]

\* Variant: content before the end of input is returned as the value.
ReadRequiredAcceptsPartial(r) ==
    IF r.value # <<>> THEN "value" ELSE IF r.err THEN "cancel" ELSE "retry"

\* The branch ReadRequired takes on the result of readLineFrom.
ReadRequiredBranch(r) ==
    IF r.err THEN "cancel" ELSE IF r.value # <<>> THEN "value" ELSE "retry"

PromptInit ==
    /\ pPc = "confirm"
    /\ pIn \in Inputs
    /\ pConfirm = FALSE
    /\ pPos = 0
    /\ pWarn = 0
    /\ pOut = [value |-> <<>>, err |-> FALSE]

\* The variables that the prompt functions leave alone.
notPrompt == <<vars, scanVars, pageVars, bulkVars, getVars, strVars, cmdVars>>

\* Confirm(w, r, message) on the input.
PromptConfirm ==
    /\ pPc = "confirm"
    /\ pConfirm' = ConfirmText(pIn)
    /\ pPc' = "read"
    /\ UNCHANGED <<pIn, pPos, pWarn, pOut>>
    /\ UNCHANGED notPrompt

\* One iteration of the loop of ReadRequired on a fresh reader of the input.
ReadRequiredStep ==
    /\ pPc = "read"
    /\ LET r == readLineFrom(pIn, pPos)
           b == ReadRequiredBranch(r)
       IN  /\ pPos' = r.pos
           /\ pPc' = IF b = "retry" THEN "read" ELSE "done"
           /\ pWarn' = IF b = "retry" THEN pWarn + 1 ELSE pWarn
           /\ pOut' = IF b = "value" THEN [value |-> r.value, err |-> FALSE]
                      ELSE IF b = "cancel" THEN [value |-> <<>>, err |-> TRUE]
                      ELSE pOut
    /\ UNCHANGED <<pIn, pConfirm>>
    /\ UNCHANGED notPrompt

PromptNext ==
    \/ PromptConfirm
    \/ ReadRequiredStep

\* The prompt functions are applied; no other operation runs.
InitPrompt ==
    PromptInit /\ DeleteOff /\ ScanOff /\ PagesOff /\ BulkOff /\ GetOff /\ StrOff
    /\ CmdOff

SpecPrompt == InitPrompt /\ [][PromptNext]_<<promptVars, notPrompt>>

\* The calls run until they return.
SpecPromptFair ==
    /\ SpecPrompt
    /\ WF_<<promptVars, notPrompt>>(PromptConfirm)
    /\ WF_<<promptVars, notPrompt>>(ReadRequiredStep)

\* The input has a first line, ended by a newline at k, that reads y or yes
\* between blanks, in any case.
FirstLineIsYes ==
    \E k \in DOMAIN pIn :
      /\ pIn[k] = "\n"
      /\ \A j \in 1..(k - 1) : pIn[j] # "\n"
      /\ \E a, b \in 1..(k - 1) :
           /\ \A j \in 1..(k - 1) : (j < a \/ j > b) => pIn[j] = " "
           /\ \/ b = a /\ pIn[a] \in {"y", "Y"}
              \/ b = a + 2 /\ pIn[a] \in {"y", "Y"} /\ pIn[a + 1] = "e" /\ pIn[a + 2] = "s"

\* C24: Confirm returns true exactly when the first input line, trimmed and
\* lowercased, is "y" or "yes"; any other line, an empty line and an input
\* that ends before a newline give false.
C24_ConfirmDefaultsToNo ==
    pPc \in {"read", "done"} => (pConfirm <=> FirstLineIsYes)

C24_Witness ==
    /\ pPc = "done"
    /\ pIn = <<" ", "Y", " ", "\n">>
    /\ pConfirm

\* The newline-terminated lines of the input, without their newline.
TerminatedLines ==
    LET pieces == SplitOn(pIn, "\n")
    IN  SubSeq(pieces, 1, Len(pieces) - 1)

Blank(l) == \A i \in DOMAIN l : l[i] = " "

FilledLines == { i \in DOMAIN TerminatedLines : ~Blank(TerminatedLines[i]) }

C26_Safety ==
    /\ pPc = "done" =>
         IF FilledLines # {}
         THEN LET f == CHOOSE i \in FilledLines : \A j \in FilledLines : i <= j
              IN  /\ ~pOut.err
                  /\ pOut.value = TrimSpace(TerminatedLines[f])
                  /\ pOut.value # <<>>
                  /\ pWarn = f - 1
         ELSE /\ pOut.err
              /\ pOut.value = <<>>
              /\ pWarn = Len(TerminatedLines)
    /\ pWarn <= Len(TerminatedLines)

\* C26: ReadRequired returns the first non-empty trimmed line that ends with
\* a newline, having written one warning per empty line before it; when the
\* input ends first (also with content on the unterminated last line) it
\* returns ErrCancelled with an empty value; and it returns on every input.
C26_ReadRequired == []C26_Safety /\ <>(pPc = "done")

C26_Witness ==
    /\ pPc = "done"
    /\ pIn = <<" ", "\n", "y", "\n">>
    /\ pWarn = 1
    /\ pOut = [value |-> <<"y">>, err |-> FALSE]



\* ------------------------------------------------------- measurement ls
\* A command-line argument that is a bare record key, or a full record URI
\* (a string that starts with "at://").
IdArg(k) == [isURI |-> FALSE, rkey |-> k, uri |-> NoRef.uri]
URIArg(u) == [isURI |-> TRUE, rkey |-> "", uri |-> u]

\* --activity not given: the empty string.
NoFilter == IdArg("")

\* resolveRecordURI(did, collection, idOrURI) on an argument.
resolveArg(d, collection, a) ==
    IF a.isURI THEN a.uri ELSE resolveRecordURI(d, collection, a.rkey)

\* mapMap(e.Value, "subject") != nil
HasSubject(e) == e.subject # NoRef

\* fetchMeasurements that succeeds: one measurementOption per listed entry
\* whose URI parses; SubjectURI stays "" when there is no subject.
fetchMeasurements(rp) ==
    LET entries == ListAllRecords(rp, CollectionMeasurement)
        parsed == SelectSeq(entries, LAMBDA e : ~ParseFails(EntryURI(e)))
    IN  [i \in 1..Len(parsed) |->
            [URI |-> EntryURI(parsed[i]),
             SubjectURI |-> IF HasSubject(parsed[i])
                            THEN parsed[i].subject.uri
                            ELSE NoRef.uri]]

\* fetchMeasurementsForActivity that succeeds.
fetchMeasurementsForActivity(rp, activityURI) ==
    SelectSeq(fetchMeasurements(rp), LAMBDA m : m.SubjectURI = activityURI)

\* runMeasurementList: the entries the table is printed from.
TableEntries(rp, activityFilter) ==
    IF activityFilter # NoFilter
    THEN fetchMeasurementsForActivity(
             rp, resolveArg(did, CollectionActivity, activityFilter))
    ELSE fetchMeasurements(rp)

\* runMeasurementList with --json: whether the loop over the raw entries
\* appends the entry (it skips one only inside `subject != nil`).
JSONKeeps(e, activityFilter) ==
    ~ ( /\ activityFilter # NoFilter
        /\ HasSubject(e)
        /\ e.subject.uri # resolveArg(did, CollectionActivity, activityFilter) )

\* runMeasurementList with --json: the records of the printed array.
JSONRecords(rp, activityFilter) ==
    SelectSeq(ListAllRecords(rp, CollectionMeasurement),
              LAMBDA e : JSONKeeps(e, activityFilter))

\* The repositories and filters of the runs; the listed URIs are built by
\* the server and parse.
LsM1Options == { {}, {Measurement("m1", TRUE, T1)}, {Measurement("m1", TRUE, T3)} }

LsRepos == { m1 \cup m2 : m1 \in LsM1Options, m2 \in M2Options }

LsFilters == {NoFilter, IdArg("a1"), IdArg("a2"), URIArg(T1), URIArg(T3)}

LsInit ==
    /\ lsPc = "start"
    /\ lsRepo \in LsRepos
    /\ lsFilter \in LsFilters
    /\ lsTable = NoListing
    /\ lsJSON = NoListing

notLs == <<vars, scanVars, pageVars, bulkVars, getVars, strVars, promptVars,
           editVars>>

\* `measurement ls [--activity f]`: the listing fails, or the table is printed.
LsRunTable ==
    /\ lsPc = "start"
    /\ \E ok \in BOOLEAN :
          lsTable' =
              IF ok
              THEN LET entries == TableEntries(lsRepo, lsFilter)
                   IN  [rows |-> [i \in 1..Len(entries) |-> entries[i].URI],
                        err |-> FALSE]
              ELSE [rows |-> <<>>, err |-> TRUE]
    /\ lsPc' = "table"
    /\ UNCHANGED <<lsRepo, lsFilter, lsJSON, notLs>>

\* `measurement ls --json [--activity f]`: either listing fails, or the array
\* built from the second listing is printed.
LsRunJSON ==
    /\ lsPc = "table"
    /\ \E outcome \in {"ok", "fetch failed", "list failed"} :
          lsJSON' =
              IF outcome = "ok"
              THEN LET records == JSONRecords(lsRepo, lsFilter)
                   IN  [rows |-> [i \in 1..Len(records) |-> EntryURI(records[i])],
                        err |-> FALSE]
              ELSE [rows |-> <<>>, err |-> TRUE]
    /\ lsPc' = "done"
    /\ UNCHANGED <<lsRepo, lsFilter, lsTable, notLs>>

LsNext == LsRunTable \/ LsRunJSON

InitLs ==
    LsInit /\ DeleteOff /\ ScanOff /\ PagesOff /\ BulkOff /\ GetOff /\ StrOff
    /\ PromptOff /\ EditOff

SpecLs == InitLs /\ [][LsNext]_<<lsVars, notLs>>

\* The URIs in a printed listing.
Listed(printed) == {printed.rows[i] : i \in 1..Len(printed.rows)}

\* The measurements of the repository whose subject is the resolved activity.
SubjectIs(rp, activityFilter) ==
    { EntryURI(r) : r \in { x \in rp :
          /\ HasSubject(x)
          /\ x.subject.uri = resolveArg(did, CollectionActivity, activityFilter) } }

\* The measurements of the repository that have no subject.
WithoutSubject(rp) == { EntryURI(r) : r \in { x \in rp : ~HasSubject(x) } }

\* Both runs of a filtered listing returned without error.
LsBothPrinted ==
    /\ lsPc = "done"
    /\ lsFilter # NoFilter
    /\ ~lsTable.err
    /\ ~lsJSON.err

\* C25: with an activity filter both output formats list exactly the
\* measurements whose subject URI is the resolved activity URI, hence the same
\* set, and a measurement without a subject is in neither.
C25_FilteredListingsAgree ==
    LsBothPrinted =>
        /\ Listed(lsTable) = SubjectIs(lsRepo, lsFilter)
        /\ Listed(lsJSON) = SubjectIs(lsRepo, lsFilter)
        /\ Listed(lsTable) = Listed(lsJSON)
        /\ Listed(lsTable) \cap WithoutSubject(lsRepo) = {}
        /\ Listed(lsJSON) \cap WithoutSubject(lsRepo) = {}


\* ----------------------------------------------------- measurement edit
\* normalizeDate: a YYYY-MM-DD date (long = FALSE) gets "T00:00:00Z" appended,
\* the empty string and any other string are returned unchanged.
normalizeDate(s) ==
    IF s = NoDate THEN NoDate
    ELSE IF ~s.long THEN [s EXCEPT !.long = TRUE]
    ELSE s

\* A stored revision of a record value.
Revision(value) == [value |-> value, cid |-> CidOf(value)]

\* The record values a writer may store; stored dates are in the long form.
Metrics == {"m1", "m2"}

StoredDates == {NoDate} \cup [day : {1, 2}, long : {TRUE}]

Values == [metric : Metrics, startDate : StoredDates]

\* The values of --metric and --start-date; "" and NoDate mean not given.
EditFlags ==
    [metric : {""} \cup Metrics,
     startDate : {NoDate, [day |-> 1, long |-> FALSE], [day |-> 1, long |-> TRUE],
                  [day |-> 2, long |-> FALSE]}]

\* atproto.PutRecord with SwapRecord: the service replaces the record only if
\* the stored hash is the expected one; the request may also fail on its own.
PutRecord(store, record, swapCID, netOK) ==
    IF netOK /\ store.cid = swapCID
    THEN [ok |-> TRUE, store |-> Revision(record)]
    ELSE [ok |-> FALSE, store |-> store]

\* runMeasurementEdit: the value a field gets when its flag is empty.
OrCurrent(new, current) == IF new = "" THEN current ELSE new

\* runMeasurementEdit: the local variable changed.
Changed(existing, flags) ==
    \/ OrCurrent(flags.metric, existing.metric) # existing.metric
    \/ (flags.startDate # NoDate /\ flags.startDate # existing.startDate)

\* runMeasurementEdit: the map existing after the assignments.
Edited(existing, flags) ==
    [metric |-> OrCurrent(flags.metric, existing.metric),
     startDate |-> IF flags.startDate # NoDate /\ flags.startDate # existing.startDate
                   THEN normalizeDate(flags.startDate)
                   ELSE existing.startDate]

EditInit ==
    /\ edPc = "start"
    /\ edStore \in {Revision(v) : v \in Values}
    /\ edFlags \in EditFlags
    /\ edExisting = NoRevision
    /\ edPuts = <<>>
    /\ edOther = <<>>
    /\ edResult = "none"

notEdit == <<vars, scanVars, pageVars, bulkVars, getVars, strVars, promptVars,
             lsVars>>

\* existing, cid, err := atproto.GetRecord(...); an error ends the handler.
EditGet ==
    /\ edPc = "start"
    /\ \E ok \in BOOLEAN :
          IF ok
          THEN /\ edExisting' = edStore
               /\ edPc' = "got"
               /\ edResult' = edResult
          ELSE /\ edExisting' = edExisting
               /\ edPc' = "done"
               /\ edResult' = "notfound"
    /\ UNCHANGED <<edStore, edFlags, edPuts, edOther, notEdit>>

\* The rest of the handler: "No changes." without a request, or one PutRecord
\* with the hash of the get, whose error is returned.
EditPut ==
    /\ edPc = "got"
    /\ IF ~Changed(edExisting.value, edFlags)
       THEN /\ edResult' = "nochanges"
            /\ UNCHANGED <<edStore, edPuts>>
       ELSE \E netOK \in BOOLEAN :
              LET record == Edited(edExisting.value, edFlags)
                  r == PutRecord(edStore, record, edExisting.cid, netOK)
              IN  /\ edStore' = r.store
                  /\ edPuts' = Append(edPuts,
                         [record |-> record, swap |-> edExisting.cid,
                          before |-> edStore, after |-> r.store, ok |-> r.ok])
                  /\ edResult' = IF r.ok THEN "updated" ELSE "failed"
    /\ edPc' = "done"
    /\ UNCHANGED <<edFlags, edExisting, edOther, notEdit>>

\* Another writer replaces the record, before the get, between the get and
\* the put, or after the handler returned.
OtherWrite ==
    /\ edPc \in {"start", "got", "done"}
    /\ Len(edOther) < MaxOtherWrites
    /\ \E v \in Values :
          /\ v # edStore.value
          /\ edStore' = Revision(v)
          /\ edOther' = Append(edOther, [rev |-> Revision(v), at |-> edPc])
    /\ UNCHANGED <<edPc, edFlags, edExisting, edPuts, edResult, notEdit>>

EditNext == EditGet \/ EditPut \/ OtherWrite

InitEdit ==
    EditInit /\ DeleteOff /\ ScanOff /\ PagesOff /\ BulkOff /\ GetOff /\ StrOff
    /\ PromptOff /\ LsOff

SpecEdit == InitEdit /\ [][EditNext]_<<editVars, notEdit>>

\* The handler issues at most one put, and it carries the hash of its get.
C21_SwapsOwnHash ==
    /\ Len(edPuts) <= 1
    /\ \A i \in 1..Len(edPuts) : edPuts[i].swap = edExisting.cid

\* A put that meets a revision other than the one the handler read fails,
\* leaves that revision stored, and the handler returns the failure.
C21_NoLostUpdate ==
    \A i \in 1..Len(edPuts) :
        edPuts[i].before.cid # edPuts[i].swap =>
            /\ ~edPuts[i].ok
            /\ edPuts[i].after = edPuts[i].before
            /\ edResult = "failed"

\* A put always stores a value that differs from the one the handler read.
C21_NoPutWhenUnchanged ==
    \A i \in 1..Len(edPuts) : edPuts[i].record # edExisting.value

\* C21: the edit handler writes with the content hash of its own get; a put
\* that finds the record changed since that get fails, is not retried, is
\* returned as an error and leaves the other writer's revision stored; and
\* when no field changed no put is issued.
C21_EditIsOptimistic ==
    /\ C21_SwapsOwnHash
    /\ C21_NoLostUpdate
    /\ C21_NoPutWhenUnchanged

====
